---- MODULE Spec2Model ----
(***************************************************************************)
(* A model of workspace-launcher: the launch pass of ui.js                 *)
(* (selectAndLaunchWorkspaces), the launcher of launcher.js                *)
(* (launchWorkspace, parseCommandString), the bookmark resolver of         *)
(* bookmarks.js, the helpers of utils.js and the management functions of   *)
(* management.js.                                                          *)
(*                                                                         *)
(* Spec is one launch pass.  SpecCalls is one call of a helper             *)
(* (findBookmarkFolder, extractUrlsFromFolder, parseCommandString,         *)
(* stripInlineComments, parseSelection) on an argument of a bounded pool.  *)
(* SpecManage is any sequence of runs of addWorkspace, editWorkspace and   *)
(* deleteWorkspace on one configuration file.  SpecInterrupt is a launch   *)
(* pass during which the SIGINT handler may run.  SpecCustomConfig is a    *)
(* launch pass given a custom configuration path.                          *)
(*                                                                         *)
(* A JavaScript string is a sequence of one-character strings; the empty   *)
(* string is << >>.  An absent (undefined) optional string is Undef.       *)
(***************************************************************************)
EXTENDS Integers, Sequences, FiniteSets, TLC

\* ------------------------------------------------------------------------
\* Strings
\* ------------------------------------------------------------------------

\* undefined, for an optional string-valued field or argument
Undef == << "undefined" >>

\* JavaScript truthiness of an optional string: neither undefined nor ""
Truthy(s) == s # Undef /\ s # << >>

\* the white space String.prototype.trim removes (of the model's alphabet)
IsSpace(c) == c \in {" ", "\t", "\n"}

RECURSIVE TrimStart(_)
TrimStart(s) ==
  IF s # << >> /\ IsSpace(Head(s)) THEN TrimStart(Tail(s)) ELSE s

RECURSIVE TrimEnd(_)
TrimEnd(s) ==
  IF s # << >> /\ IsSpace(s[Len(s)]) THEN TrimEnd(SubSeq(s, 1, Len(s) - 1)) ELSE s

\* String.prototype.trim
Trim(s) == TrimEnd(TrimStart(s))

\* String.prototype.startsWith / endsWith
StartsWith(s, p) == Len(s) >= Len(p) /\ SubSeq(s, 1, Len(p)) = p
EndsWith(s, p) == Len(s) >= Len(p) /\ SubSeq(s, Len(s) - Len(p) + 1, Len(s)) = p

\* String.prototype.includes for a one-character needle
Includes(s, c) == \E i \in 1..Len(s) : s[i] = c

\* String.prototype.split for a one-character separator
RECURSIVE SplitFrom(_, _, _, _)
SplitFrom(s, sep, i, cur) ==
  IF i > Len(s) THEN << cur >>
  ELSE IF s[i] = sep THEN << cur >> \o SplitFrom(s, sep, i + 1, << >>)
  ELSE SplitFrom(s, sep, i + 1, Append(cur, s[i]))

Split(s, sep) == SplitFrom(s, sep, 1, << >>)

\* Array.prototype.join for a one-character separator
RECURSIVE Join(_, _)
Join(parts, sep) ==
  IF parts = << >> THEN << >>
  ELSE IF Len(parts) = 1 THEN parts[1]
  ELSE parts[1] \o << sep >> \o Join(Tail(parts), sep)

\* the literals of the source
XdgOpen == << "x", "d", "g", "-", "o", "p", "e", "n" >>
Ellipsis == << ".", ".", "." >>

\* launcher.js: a command is displayed in full up to this length
CmdDisplayMax == 50
\* launcher.js: a bookmark name is displayed in full up to this length
NameDisplayMax == 40

\* s.length > max ? s.substring(0, max) + "..." : s
DisplayName(s, max) ==
  IF Len(s) > max THEN SubSeq(s, 1, max) \o Ellipsis ELSE s

\* ------------------------------------------------------------------------
\* utils.js: stripInlineComments
\* ------------------------------------------------------------------------

\* (mutant) the scan stops at the first comment sign, quoted or not
stripScanUnquoted(cmd, i, st) ==
  LET ks == { k \in i..Len(cmd) : cmd[k] = "#" }
  IN  st.result \o SubSeq(cmd, i, IF ks = {} THEN Len(cmd)
                                  ELSE (CHOOSE k \in ks : \A j \in ks : k <= j) - 1)

\* the scan of stripInlineComments from position i on; st = [result, inS, inD]
RECURSIVE stripScan(_, _, _)
stripScan(cmd, i, st) ==
  IF i > Len(cmd) THEN st.result
  ELSE
    LET char == cmd[i]
        prevChar == IF i > 1 THEN cmd[i - 1] ELSE ""
    IN  IF char = "\"" /\ ~st.inS /\ prevChar # "\\"
          THEN stripScan(cmd, i + 1,
                 [result |-> Append(st.result, char), inS |-> st.inS, inD |-> ~st.inD])
        ELSE IF char = "'" /\ ~st.inD /\ prevChar # "\\"
          THEN stripScan(cmd, i + 1,
                 [result |-> Append(st.result, char), inS |-> ~st.inS, inD |-> st.inD])
        ELSE IF char = "#" /\ ~st.inS /\ ~st.inD
          THEN st.result
        ELSE stripScan(cmd, i + 1,
                 [result |-> Append(st.result, char), inS |-> st.inS, inD |-> st.inD])

\* (mutant) the result is returned without .trim()
stripInlineCommentsUntrimmed(cmd) ==
  IF ~Truthy(cmd) THEN << >>
  ELSE stripScan(cmd, 1, [result |-> << >>, inS |-> FALSE, inD |-> FALSE])

\* stripInlineComments: "" for a falsy cmd, else the scanned result trimmed
stripInlineComments(cmd) ==
  IF ~Truthy(cmd) THEN << >>
  ELSE Trim(stripScan(cmd, 1, [result |-> << >>, inS |-> FALSE, inD |-> FALSE]))

\* ------------------------------------------------------------------------
\* launcher.js: parseCommandString
\* ------------------------------------------------------------------------

\* (mutant) a backslash is an escape only outside single quotes, as in a
\* POSIX shell
pcsStepPosixEscape(st, char) ==
  IF st.escapeNext
    THEN [st EXCEPT !.current = Append(@, char), !.escapeNext = FALSE]
  ELSE IF char = "\\" /\ ~st.inSingleQuotes
    THEN [st EXCEPT !.escapeNext = TRUE]
  ELSE IF char = "'" /\ ~st.inDoubleQuotes
    THEN [st EXCEPT !.inSingleQuotes = ~@]
  ELSE IF char = "\"" /\ ~st.inSingleQuotes
    THEN [st EXCEPT !.inDoubleQuotes = ~@]
  ELSE IF char = " " /\ ~st.inSingleQuotes /\ ~st.inDoubleQuotes
    THEN IF st.current # << >>
           THEN [st EXCEPT !.parts = Append(@, st.current), !.current = << >>]
           ELSE st
  ELSE [st EXCEPT !.current = Append(@, char)]

\* one iteration of the for loop of parseCommandString
pcsStep(st, char) ==
  IF st.escapeNext
    THEN [st EXCEPT !.current = Append(@, char), !.escapeNext = FALSE]
  ELSE IF char = "\\"
    THEN [st EXCEPT !.escapeNext = TRUE]
  ELSE IF char = "'" /\ ~st.inDoubleQuotes
    THEN [st EXCEPT !.inSingleQuotes = ~@]
  ELSE IF char = "\"" /\ ~st.inSingleQuotes
    THEN [st EXCEPT !.inDoubleQuotes = ~@]
  ELSE IF char = " " /\ ~st.inSingleQuotes /\ ~st.inDoubleQuotes
    THEN IF st.current # << >>
           THEN [st EXCEPT !.parts = Append(@, st.current), !.current = << >>]
           ELSE st
  ELSE [st EXCEPT !.current = Append(@, char)]

RECURSIVE pcsScan(_, _, _)
pcsScan(command, i, st) ==
  IF i > Len(command) THEN st
  ELSE pcsScan(command, i + 1, pcsStep(st, command[i]))

parseCommandString(command) ==
  IF ~Truthy(command) THEN << >>
  ELSE
    LET st == pcsScan(command, 1,
                [parts |-> << >>, current |-> << >>, inSingleQuotes |-> FALSE,
                 inDoubleQuotes |-> FALSE, escapeNext |-> FALSE])
    IN  IF st.current # << >> THEN Append(st.parts, st.current) ELSE st.parts

\* ------------------------------------------------------------------------
\* utils.js: parseSelection
\* ------------------------------------------------------------------------

DigitValue(c) ==
  CASE c = "0" -> 0 [] c = "1" -> 1 [] c = "2" -> 2 [] c = "3" -> 3 [] c = "4" -> 4
    [] c = "5" -> 5 [] c = "6" -> 6 [] c = "7" -> 7 [] c = "8" -> 8 [] c = "9" -> 9

IsDigit(c) == c \in {"0", "1", "2", "3", "4", "5", "6", "7", "8", "9"}

\* the value of the longest prefix of digits of s from position i on
RECURSIVE digitsValue(_, _, _)
digitsValue(s, i, acc) ==
  IF i <= Len(s) /\ IsDigit(s[i]) THEN digitsValue(s, i + 1, acc * 10 + DigitValue(s[i]))
  ELSE acc

\* parseInt(s), radix 10: leading white space, an optional sign, then digits;
\* NaN when no digit follows
parseInt(s) ==
  LET t == TrimStart(s)
      signed == t # << >> /\ t[1] \in {"+", "-"}
      d == IF signed THEN Tail(t) ELSE t
  IN  IF d = << >> \/ ~IsDigit(d[1]) THEN [nan |-> TRUE, v |-> 0]
      ELSE [nan |-> FALSE,
            v |-> IF signed /\ t[1] = "-" THEN 0 - digitsValue(d, 1, 0)
                  ELSE digitsValue(d, 1, 0)]

\* the ids one comma-separated part of a selection contributes
partIds(part) ==
  IF Includes(part, "-")
    THEN LET bounds == Split(part, "-")
             start == parseInt(Trim(bounds[1]))
             end == parseInt(Trim(bounds[2]))
         IN  IF ~start.nan /\ ~end.nan /\ start.v <= end.v
               THEN start.v .. end.v
               ELSE {}
    ELSE LET num == parseInt(part)
         IN  IF ~num.nan THEN {num.v} ELSE {}

\* [...ids].sort((a, b) => a - b)
RECURSIVE SortAscending(_)
SortAscending(ids) ==
  IF ids = {} THEN << >>
  ELSE LET m == CHOOSE x \in ids : \A y \in ids : x <= y
       IN  << m >> \o SortAscending(ids \ {m})

parseSelection(selection) ==
  IF ~Truthy(selection) THEN << >>
  ELSE LET parts == Split(selection, ",")
       IN  SortAscending(UNION {partIds(Trim(parts[i])) : i \in 1..Len(parts)})

\* ------------------------------------------------------------------------
\* utils.js: print, sanitizeInput
\* ------------------------------------------------------------------------

\* one call of a print function (or of console.error): the function, the
\* message, its interpolated text and, for print.progress, current and total
Line(fn, msg, text, current, total) ==
  [fn |-> fn, msg |-> msg, text |-> text, current |-> current, total |-> total]

Error(msg, text) == Line("error", msg, text, 0, 0)
Info(msg, text) == Line("info", msg, text, 0, 0)
Status(msg, text) == Line("status", msg, text, 0, 0)
DryRunLine(msg, text) == Line("dryRun", msg, text, 0, 0)
Progress(current, total, msg, text) == Line("progress", msg, text, current, total)

\* utils.js: sanitizeInput keeps at most this many characters
SanitizeMax == 1000

\* the control characters /[\x00-\x1F\x7F]/ of the model's alphabet
IsControl(c) == c \in {"\t", "\n"}

RECURSIVE RemoveControl(_)
RemoveControl(s) ==
  IF s = << >> THEN << >>
  ELSE IF IsControl(Head(s)) THEN RemoveControl(Tail(s))
  ELSE << Head(s) >> \o RemoveControl(Tail(s))

sanitizeInput(input) ==
  IF ~Truthy(input) THEN << >>
  ELSE LET kept == RemoveControl(input)
       IN  SubSeq(kept, 1, IF Len(kept) < SanitizeMax THEN Len(kept) ELSE SanitizeMax)

\* ------------------------------------------------------------------------
\* bookmarks.js
\* ------------------------------------------------------------------------

\* A node of the bookmarks tree.  hasChildren is whether the JSON object has
\* a children array; type "undefined" is an absent root.
Node(type, name, url, hasChildren, children) ==
  [type |-> type, name |-> name, url |-> url,
   hasChildren |-> hasChildren, children |-> children]

NoNode == Node("undefined", << >>, << >>, FALSE, << >>)
UrlNode(name, url) == Node("url", name, url, FALSE, << >>)
FolderNode(name, children) == Node("folder", name, << >>, TRUE, children)

\* (mutant) a default path stands in for a missing setting
getBookmarksFilePathDefaulted(cfg) ==
  IF Truthy(cfg.settings.bookmarks_file) THEN cfg.settings.bookmarks_file
  ELSE << "/", "b" >>

getBookmarksFilePath(cfg) ==
  IF Truthy(cfg.settings.bookmarks_file) THEN cfg.settings.bookmarks_file
  ELSE Undef

\* loadBookmarksFile: file is the bookmarks file at that path,
\* [state: "missing" | "malformed" | "ok", json]; json.kind "null" is a
\* document JSON.parse turns into a falsy value.
loadBookmarksFile(bookmarksPath, file) ==
  IF file.state = "missing"
    THEN [loaded |-> FALSE, json |-> file.json,
          out |-> << Error("Bookmarks file not found", bookmarksPath),
                     Info("Tip: Check your bookmarks_file path", << >>),
                     Info("Common paths", << >>),
                     Info("Chrome", << >>),
                     Info("Chromium", << >>),
                     Info("Brave", << >>) >>]
  ELSE IF file.state = "malformed"
    THEN [loaded |-> FALSE, json |-> file.json,
          out |-> << Error("Failed to parse bookmarks file", << >>),
                     Info("Tip: Ensure the bookmarks file is valid JSON", << >>) >>]
  ELSE [loaded |-> file.json.kind # "null", json |-> file.json, out |-> << >>]

\* rootMap is an object literal: a key it does not define is looked up in
\* Object.prototype, where these (of the model's alphabet) name a function
ObjectPrototypeKeys == { << "c", "o", "n", "s", "t", "r", "u", "c", "t", "o", "r" >> }

\* rootMap[key]
rootMap(roots, key) ==
  IF key \in { << "B", "o", "o", "k", "m", "a", "r", "k", "s", " ", "b", "a", "r" >>,
               << "b", "o", "o", "k", "m", "a", "r", "k", "_", "b", "a", "r" >> }
    THEN roots.bookmark_bar
  ELSE IF key \in { << "O", "t", "h", "e", "r", " ", "b", "o", "o", "k", "m", "a", "r", "k", "s" >>,
                    << "o", "t", "h", "e", "r" >> }
    THEN roots.other
  ELSE IF key \in { << "M", "o", "b", "i", "l", "e", " ", "b", "o", "o", "k", "m", "a", "r", "k", "s" >>,
                    << "s", "y", "n", "c", "e", "d" >> }
    THEN roots.synced
  ELSE IF key \in ObjectPrototypeKeys
    THEN Node("function", << >>, << >>, FALSE, << >>)
  ELSE NoNode

\* (mutant) the first child of that name, whatever its type
findChildAnyType(children, name) ==
  IF \E j \in 1..Len(children) : children[j].name = name
    THEN children[CHOOSE j \in 1..Len(children) :
                    /\ children[j].name = name
                    /\ \A k \in 1..(j - 1) : children[k].name # name]
    ELSE NoNode

\* current.children.find(c => c.name === name && c.type === "folder")
findChild(children, name) ==
  IF \E j \in 1..Len(children) : children[j].name = name /\ children[j].type = "folder"
    THEN children[CHOOSE j \in 1..Len(children) :
                    /\ children[j].name = name /\ children[j].type = "folder"
                    /\ \A k \in 1..(j - 1) :
                         ~(children[k].name = name /\ children[k].type = "folder")]
    ELSE NoNode

\* the navigation loop of findBookmarkFolder from segment i on
RECURSIVE navigate(_, _, _)
navigate(parts, i, current) ==
  IF i > Len(parts) THEN [found |-> TRUE, node |-> current, out |-> << >>]
  ELSE IF ~current.hasChildren
    THEN [found |-> FALSE, node |-> NoNode,
          out |-> << Error("is not a folder", parts[i - 1]) >>]
  ELSE LET child == findChild(current.children, parts[i])
       IN  IF child.type = "undefined"
             THEN [found |-> FALSE, node |-> NoNode,
                   out |-> << Error("Folder not found",
                                    parts[i] \o << " ", "i", "n", " " >>
                                      \o Join(SubSeq(parts, 1, i - 1), "/")),
                              Info("Tip: Check the folder name spelling and path", << >>) >>]
             ELSE navigate(parts, i + 1, child)

\* findBookmarkFolder: threw is the TypeError of reading a property of
\* bookmarks.roots when the document has no roots object
findBookmarkFolder(bookmarks, folderPath) ==
  LET split == Split(folderPath, "/")
      parts == [i \in 1..Len(split) |-> Trim(split[i])]
  IN  IF ~bookmarks.hasRoots
        THEN [threw |-> TRUE, found |-> FALSE, node |-> NoNode, out |-> << >>]
      ELSE LET current == rootMap(bookmarks.roots, parts[1])
           IN  IF current.type = "undefined"
                 THEN [threw |-> FALSE, found |-> FALSE, node |-> NoNode,
                       out |-> << Error("Root folder not found", parts[1]),
                                  Info("Available roots", << >>) >>]
                 ELSE LET r == navigate(parts, 2, current)
                      IN  [threw |-> FALSE, found |-> r.found, node |-> r.node,
                           out |-> r.out]

RECURSIVE extractItems(_, _, _)

extractUrlsFromFolder(folder, recursive) ==
  IF ~folder.hasChildren THEN << >> ELSE extractItems(folder.children, 1, recursive)

\* (mutant) the url nodes among the children from i on, no folder entered
extractItemsDirect(children, i, recursive) ==
  LET urls == SelectSeq(SubSeq(children, i, Len(children)), LAMBDA c : c.type = "url")
  IN  [j \in 1..Len(urls) |-> [name |-> urls[j].name, url |-> urls[j].url]]

\* the for loop of extractUrlsFromFolder from child i on
extractItems(children, i, recursive) ==
  IF i > Len(children) THEN << >>
  ELSE LET item == children[i]
           here == IF item.type = "url"
                     THEN << [name |-> item.name, url |-> item.url] >>
                   ELSE IF item.type = "folder" /\ recursive
                     THEN extractUrlsFromFolder(item, recursive)
                   ELSE << >>
       IN  here \o extractItems(children, i + 1, recursive)

getBookmarksFromFolder(bookmarksFilePath, file, folderPath) ==
  LET l == loadBookmarksFile(bookmarksFilePath, file)
  IN  IF ~l.loaded THEN [threw |-> FALSE, bookmarks |-> << >>, out |-> l.out]
      ELSE LET f == findBookmarkFolder(l.json, folderPath)
           IN  IF f.threw THEN [threw |-> TRUE, bookmarks |-> << >>, out |-> f.out]
               ELSE IF ~f.found THEN [threw |-> FALSE, bookmarks |-> << >>, out |-> f.out]
               ELSE [threw |-> FALSE, bookmarks |-> extractUrlsFromFolder(f.node, TRUE),
                     out |-> << >>]

\* ------------------------------------------------------------------------
\* utils.js: loadConfig, validateConfig
\* ------------------------------------------------------------------------

\* A workspace id as JavaScript sees it: its typeof and, for a number, its value
Num(n) == [t |-> "number", v |-> n]
NoId == [t |-> "undefined", v |-> 0]
StrId(n) == [t |-> "string", v |-> n]

\* Number.prototype.toString for an integer
RECURSIVE NatToStr(_)
NatToStr(n) ==
  LET d == << "0", "1", "2", "3", "4", "5", "6", "7", "8", "9" >>[(n % 10) + 1]
  IN  IF n < 10 THEN << d >> ELSE Append(NatToStr(n \div 10), d)

IntToStr(n) == IF n < 0 THEN << "-" >> \o NatToStr(0 - n) ELSE NatToStr(n)

\* the text of ${workspace.id}
IdToStr(id) == IF id.t = "undefined" THEN Undef ELSE IntToStr(id.v)

\* A workspace record.  commandsType is "undefined" (no commands key),
\* "array", or "string" (a commands value that is not an array).
Workspace(id, name, commandsType, commands, bookmarks_folder) ==
  [id |-> id, name |-> name, commandsType |-> commandsType, commands |-> commands,
   bookmarks_folder |-> bookmarks_folder]

NoWorkspace == Workspace(NoId, Undef, "undefined", << >>, Undef)

\* A configuration: the settings table (an absent key is Undef) and the
\* workspaces value, with whether it is an array
Config(bookmarks_file, bookmarks_open_in, workspacesIsArray, workspaces) ==
  [settings |-> [bookmarks_file |-> bookmarks_file,
                 bookmarks_open_in |-> bookmarks_open_in],
   workspacesIsArray |-> workspacesIsArray, workspaces |-> workspaces]

NoConfig == Config(Undef, Undef, FALSE, << >>)

\* A file: [state: "missing" | "malformed" | "ok", ...]
MissingConfigFile == [state |-> "missing", config |-> NoConfig]
MalformedConfigFile == [state |-> "malformed", config |-> NoConfig]
ConfigFileOf(c) == [state |-> "ok", config |-> c]

\* autoCreateConfig: the config file afterwards, and whether it was created
autoCreateConfig(file, example) ==
  IF file.state # "missing" THEN [file |-> file, created |-> FALSE, out |-> << >>]
  ELSE IF example.state = "missing"
    THEN [file |-> file, created |-> FALSE,
          out |-> << Error("Example config not found", << >>) >>]
  ELSE [file |-> example, created |-> TRUE, out |-> << >>]

\* loadConfig(): reads CONFIG_PATH whatever path its caller passes.  file.config
\* is the configuration the file denotes after Bun.TOML.parse and
\* expandConfigEnvVars; result "exit" is process.exit(1), "throw" the error
\* Bun.TOML.parse raises.
loadConfig(file, example) ==
  LET a == autoCreateConfig(file, example)
      created == IF a.created
                   THEN << Info("Created config file from example", << >>),
                           Info("Please edit the config file", << >>) >>
                   ELSE << >>
  IN  IF a.file.state = "missing"
        THEN [result |-> "exit", file |-> a.file, config |-> NoConfig,
              out |-> a.out \o created
                        \o << Error("Config file not found", << >>),
                              Info("Create directory and copy example config", << >>) >>]
      ELSE IF a.file.state = "malformed"
        THEN [result |-> "throw", file |-> a.file, config |-> NoConfig,
              out |-> a.out \o created]
      ELSE [result |-> "ok", file |-> a.file, config |-> a.file.config,
            out |-> a.out \o created]

\* (mutant) no id is ever reported as a duplicate
duplicatesNone(ids) == {}

\* ids.filter((item, index) => ids.indexOf(item) !== index)
duplicates(ids) ==
  { ids[i] : i \in { k \in 1..Len(ids) : \E j \in 1..(k - 1) : ids[j] = ids[k] } }

\* the checks of validateConfig on one workspace
workspaceErrors(w) ==
  (IF w.id.t # "number" \/ w.id.v = 0
     THEN << Error("has invalid or missing ID", w.name) >> ELSE << >>)
  \o (IF ~Truthy(w.name) \/ Trim(w.name) = << >>
        THEN << Error("has empty name", IdToStr(w.id)) >> ELSE << >>)
  \o (IF w.commandsType = "string"
        THEN << Error("commands must be an array", w.name) >> ELSE << >>)

workspaceWarnings(w) ==
  IF w.commandsType = "undefined" /\ ~Truthy(w.bookmarks_folder)
    THEN << Info("has no commands or bookmarks_folder", w.name) >> ELSE << >>

RECURSIVE Flatten(_)
Flatten(seqs) == IF seqs = << >> THEN << >> ELSE Head(seqs) \o Flatten(Tail(seqs))

validateConfig(cfg) ==
  LET ws == cfg.workspaces
      errors ==
        IF ~cfg.workspacesIsArray
          THEN << Error("workspaces must be an array", << >>) >>
        ELSE (IF duplicates([i \in 1..Len(ws) |-> ws[i].id]) # {}
                THEN << Error("Duplicate workspace IDs found", << >>) >> ELSE << >>)
             \o Flatten([i \in 1..Len(ws) |-> workspaceErrors(ws[i])])
      warnings ==
        IF ~cfg.workspacesIsArray THEN << >>
        ELSE Flatten([i \in 1..Len(ws) |-> workspaceWarnings(ws[i])])
  IN  [valid |-> errors = << >>, errors |-> errors, warnings |-> warnings]

\* ------------------------------------------------------------------------
\* The inputs of a run
\* ------------------------------------------------------------------------

\* the most commands the first workspace of the model's configurations has
MaxCommands == 3
\* the most url nodes the bookmarks bar of the model's documents has
MaxUrls == 2

BaseCommands == << << "a" >>, << "b", " ", "-", "x" >>, << "c", " ", "|", " ", "d" >> >>
CommandAt(i) == BaseCommands[((i - 1) % Len(BaseCommands)) + 1]

UrlAt(i) == UrlNode(<< "n" >> \o NatToStr(i), << "u" >> \o NatToStr(i))

\* four workspaces, ids 1, 2, 3 and 5: commands only; blank, comment and
\* quoted commands with a nested bookmarks folder; a root as bookmarks folder;
\* a folder of the synced root
WorkspacesOk ==
  << Workspace(Num(1), << "d", "e", "v" >>, "array", [i \in 1..MaxCommands |-> CommandAt(i)], Undef),
     Workspace(Num(2), << "w", "e", "b" >>, "array",
               << << >>, << " ", "#", " ", "x" >>, << " " >>, << "a", " ", "#", " ", "b" >>, << "e", " ", "'", "#", "'" >> >>, << "o", "t", "h", "e", "r", " ", "/", " ", "R" >>),
     Workspace(Num(3), << "r", "e", "a", "d" >>, "undefined", << >>, << "B", "o", "o", "k", "m", "a", "r", "k", "s", " ", "b", "a", "r" >>),
     Workspace(Num(5), << "m", "i", "s", "c" >>, "array", << >>, << "s", "y", "n", "c", "e", "d", "/", "R" >>) >>

\* the workspaces values validateConfig rejects, and one it only warns about
WorkspacesPool ==
  { WorkspacesOk,
    << Workspace(Num(1), << "d", "e", "v" >>, "array", << << "a" >> >>, Undef),
       Workspace(Num(2), << "i", "d", "l", "e" >>, "undefined", << >>, Undef) >>,
    << Workspace(Num(1), << "d", "e", "v" >>, "array", << << "a" >> >>, Undef),
       Workspace(Num(1), << "w", "e", "b" >>, "array", << << "c" >> >>, Undef) >>,
    << Workspace(NoId, << "d", "e", "v" >>, "array", << << "a" >> >>, Undef) >>,
    << Workspace(StrId(1), << "d", "e", "v" >>, "array", << << "a" >> >>, Undef) >>,
    << Workspace(Num(0), << "d", "e", "v" >>, "array", << << "a" >> >>, Undef) >>,
    << Workspace(Num(1), << " " >>, "array", << << "a" >> >>, Undef) >>,
    << Workspace(Num(1), << "d", "e", "v" >>, "string", << >>, Undef) >> }

BookmarksPath == << "/", "b" >>

\* (bookmarks_file, bookmarks_open_in)
SettingsPool ==
  { << Undef, Undef >>,
    << BookmarksPath, Undef >>,
    << BookmarksPath, << "/", "b", "i", "n", "/", "x", "d", "g", "-", "o", "p", "e", "n", " ", "-", "w" >> >>,
    << BookmarksPath, << "b", "r", " ", "'", "a", " ", "b", "'" >> >>,
    << BookmarksPath, << " " >> >>,
    << BookmarksPath, << "\"", "\"" >> >> }

\* every settings with the four workspaces, every workspaces value with
\* the empty settings, and a workspaces value that is not an array
ConfigPool ==
  { Config(st[1], st[2], TRUE, WorkspacesOk) : st \in SettingsPool }
    \cup { Config(Undef, Undef, TRUE, ws) : ws \in WorkspacesPool }
    \cup { Config(Undef, Undef, FALSE, << >>) }

ConfigFilePool ==
  { ConfigFileOf(c) : c \in ConfigPool } \cup { MissingConfigFile, MalformedConfigFile }

\* a JSON document: kind "null" is a falsy value, kind "object" a truthy
\* one, with or without a roots object
Json(kind, hasRoots, bookmark_bar, other, synced) ==
  [kind |-> kind, hasRoots |-> hasRoots,
   roots |-> [bookmark_bar |-> bookmark_bar, other |-> other, synced |-> synced]]

NullJson == Json("null", FALSE, NoNode, NoNode, NoNode)

\* the bar holds MaxUrls urls, the first in a subfolder; other holds a url
\* and a folder both named R
FullDocument ==
  Json("object", TRUE,
       FolderNode(<< "B", "o", "o", "k", "m", "a", "r", "k", "s", " ", "b", "a", "r" >>,
                  << FolderNode(<< "F" >>, << UrlAt(1) >>) >>
                    \o [i \in 1..(MaxUrls - 1) |-> UrlAt(i + 1)]),
       FolderNode(<< "O", "t", "h", "e", "r", " ", "b", "o", "o", "k", "m", "a", "r", "k", "s" >>,
                  << UrlNode(<< "R" >>, << "r" >>), FolderNode(<< "R" >>, << UrlAt(9) >>) >>),
       FolderNode(<< "M", "o", "b", "i", "l", "e", " ", "b", "o", "o", "k", "m", "a", "r", "k", "s" >>, << >>))

\* the bar is an empty folder, other has no children, synced is absent
SparseDocument ==
  Json("object", TRUE,
       FolderNode(<< "B", "o", "o", "k", "m", "a", "r", "k", "s", " ", "b", "a", "r" >>, << >>),
       Node("folder", << "O", "t", "h", "e", "r", " ", "b", "o", "o", "k", "m", "a", "r", "k", "s" >>, << >>, FALSE, << >>),
       NoNode)

BookmarksFilePool ==
  { [state |-> "missing", json |-> NullJson],
    [state |-> "malformed", json |-> NullJson],
    [state |-> "ok", json |-> NullJson],
    [state |-> "ok", json |-> Json("object", FALSE, NoNode, NoNode, NoNode)],
    [state |-> "ok", json |-> FullDocument],
    [state |-> "ok", json |-> SparseDocument] }

\* the selection argument of `launch` (Undef: none given)
PreSelectedPool ==
  { Undef, << "1" >>, << "3", ",", "2", ",", "2" >>, << "2", "-", "5" >>, << "5", "-", "2" >>, << "x" >>, << "7" >> }

\* what the operator types at the prompt
UserInputPool == { << >>, << " ", "5", "\n" >>, << "3", "x", ",", "\t", "9" >> }

\* how a spawned child ends: exit code 0, a non-zero exit code, or an error
\* raised by the shell primitive
Outcomes == { "ok", "nonzero", "throw" }

\* for a command the catch block also reads the message of the error:
\* "throwNotFound" is an error whose message has "command not found"
CommandOutcomes == Outcomes \cup { "throwNotFound" }

\* ------------------------------------------------------------------------
\* State
\* ------------------------------------------------------------------------

VARIABLES
  argv,               \* [preSelected, dryRun, verbose, customConfigPath]: the
                      \* arguments of selectAndLaunchWorkspaces
  configFile,         \* the file at CONFIG_PATH
  exampleFile,        \* the file at EXAMPLE_CONFIG_PATH
  bookmarksFile,      \* the file at the configured bookmarks path
  customConfigFile,   \* the file at the path given with --config
  isDryRun,           \* launcher.js: let isDryRun
  isVerbose,          \* launcher.js: let isVerbose
  pc,                 \* where selectAndLaunchWorkspaces / launchWorkspace stands
  config,             \* ui.js: const config
  selectedIds,        \* ui.js: let selectedIds
  idIdx,              \* position of `for (const id of selectedIds)`
  ci,                 \* position of `for (const cmd of commands)`
  bookmarks,          \* launcher.js: const bookmarks
  commandParts,       \* launcher.js: const commandParts
  bi,                 \* launcher.js: the i of the xdg-open loop
  spawned,            \* every child handed to the shell primitive $, in order
  outcomes,           \* how the children that have ended ended, in order
  out,                \* every line printed, in order
  launchedWorkspaces, \* ui.js: const launchedWorkspaces
  notFoundIds,        \* ui.js: const notFoundIds
  exitCode,           \* the codes process.exit was called with: {} while running
  raised,             \* the expression whose error ended the run; "" if none
  call,               \* a function or management run under study: [fn, arguments]
  ret                 \* [returned, value]: what that call returned

vars ==
  << argv, configFile, exampleFile, bookmarksFile, customConfigFile, isDryRun, isVerbose, pc, config,
     selectedIds, idIdx, ci, bookmarks, commandParts, bi, spawned, outcomes, out,
     launchedWorkspaces, notFoundIds, exitCode, raised, call, ret >>

inputs == << argv, configFile, exampleFile, bookmarksFile, customConfigFile >>
flags == << isDryRun, isVerbose >>
locals == << ci, bookmarks, commandParts, bi >>
children == << spawned, outcomes >>
results == << launchedWorkspaces, notFoundIds >>
calls == << call, ret >>

\* no call is under study; a call that has not returned
NoCall == [fn |-> ""]
NoRet == [returned |-> FALSE, value |-> << >>]

Blank == Line("log", "", << >>, 0, 0)

Init ==
  /\ argv \in [preSelected : PreSelectedPool, dryRun : BOOLEAN, verbose : BOOLEAN,
                customConfigPath : { Undef }]
  /\ configFile \in ConfigFilePool
  /\ exampleFile \in
       IF configFile.state = "missing"
         THEN { MissingConfigFile, ConfigFileOf(Config(Undef, Undef, TRUE, WorkspacesOk)) }
         ELSE { MissingConfigFile }
  /\ bookmarksFile \in BookmarksFilePool
  /\ customConfigFile = MissingConfigFile
  /\ isDryRun = FALSE
  /\ isVerbose = FALSE
  /\ pc = "start"
  /\ config = NoConfig
  /\ selectedIds = << >>
  /\ idIdx = 1
  /\ ci = 1
  /\ bookmarks = << >>
  /\ commandParts = << >>
  /\ bi = 1
  /\ spawned = << >>
  /\ outcomes = << >>
  /\ out = << >>
  /\ launchedWorkspaces = << >>
  /\ notFoundIds = << >>
  /\ exitCode = {}
  /\ raised = ""
  /\ call = NoCall
  /\ ret = NoRet

\* ------------------------------------------------------------------------
\* ui.js: selectAndLaunchWorkspaces, up to the selection
\* ------------------------------------------------------------------------

\* print.workspace for every workspace of the list
listing(workspaces) ==
  [i \in 1..Len(workspaces) |->
     Line("workspace",
          IF (workspaces[i].commandsType = "array" /\ Len(workspaces[i].commands) > 0)
               \/ Truthy(workspaces[i].bookmarks_folder)
            THEN "green" ELSE "yellow",
          workspaces[i].name, workspaces[i].id.v, 0)]

\* the lines printed between validation and the selection
banner(cfg, validation, dryRun) ==
  (IF validation.warnings # << >>
     THEN << Info("Configuration warnings", << >>) >> \o validation.warnings \o << Blank >>
     ELSE << >>)
  \o (IF dryRun THEN << Blank, Info("DRY RUN MODE", << >>), Blank >> ELSE << >>)
  \o << Blank, Info("Available Workspaces", NatToStr(Len(cfg.workspaces))), Blank >>
  \o listing(cfg.workspaces)

\* the file that loadConfig(customConfigPath) reads, of the file at
\* CONFIG_PATH and the file at the path passed: loadConfig declares no
\* parameter, so the argument is dropped
configFileRead(customConfigPath, atConfigPath, atCustomPath) == atConfigPath

\* launcher.js setDryRun: the value assigned to isDryRun
setDryRun(value) == value

\* (mutant) setVerbose assigns nothing: the flag keeps its initial value
setVerboseDropped(value) == FALSE

\* launcher.js setVerbose: the value assigned to isVerbose
setVerbose(value) == value

\* setDryRun, setVerbose, loadConfig, validateConfig, the listing and, when
\* ids were given as argument, parseSelection
Start ==
  /\ pc = "start"
  /\ isDryRun' = setDryRun(argv.dryRun)
  /\ isVerbose' = setVerbose(argv.verbose)
  /\ LET l == loadConfig(configFileRead(argv.customConfigPath, configFile, customConfigFile),
                         exampleFile)
         validation == validateConfig(l.config)
         ids == parseSelection(argv.preSelected)
     IN  /\ configFile' = l.file
         /\ IF l.result = "exit"
              THEN /\ out' = out \o l.out
                   /\ pc' = "exited"
                   /\ exitCode' = {1}
                   /\ UNCHANGED << config, selectedIds, raised >>
            ELSE IF l.result = "throw"
              THEN /\ out' = out \o l.out
                   /\ pc' = "fault"
                   /\ raised' = "Bun.TOML.parse"
                   /\ UNCHANGED << config, selectedIds, exitCode >>
            ELSE IF ~validation.valid
              THEN /\ out' = out \o l.out \o << Error("Configuration errors", << >>) >>
                                \o validation.errors \o << Blank >>
                   /\ config' = l.config
                   /\ pc' = "exited"
                   /\ exitCode' = {1}
                   /\ UNCHANGED << selectedIds, raised >>
            ELSE IF Truthy(argv.preSelected)
              THEN /\ config' = l.config
                   /\ selectedIds' = ids
                   /\ UNCHANGED raised
                   /\ IF Len(ids) = 0
                        THEN /\ out' = out \o l.out \o banner(l.config, validation, argv.dryRun)
                                         \o << Error("No valid workspace IDs provided", << >>) >>
                             /\ pc' = "exited"
                             /\ exitCode' = {1}
                        ELSE /\ out' = out \o l.out \o banner(l.config, validation, argv.dryRun)
                             /\ pc' = "loop"
                             /\ UNCHANGED exitCode
            ELSE /\ config' = l.config
                 /\ out' = out \o l.out \o banner(l.config, validation, argv.dryRun)
                             \o << Blank, Line("prompt", "Enter workspace numbers", << >>, 0, 0) >>
                 /\ pc' = "prompt"
                 /\ UNCHANGED << selectedIds, exitCode, raised >>
  /\ UNCHANGED << calls, argv, exampleFile, bookmarksFile, customConfigFile, idIdx, locals,
                  children, results >>

\* utils.js getUserInput: the data read from stdin, trimmed
getUserInput(data) == Trim(data)

\* the operator answers the prompt
ReadSelection ==
  /\ pc = "prompt"
  /\ \E data \in UserInputPool :
       selectedIds' = parseSelection(sanitizeInput(getUserInput(data)))
  /\ pc' = "loop"
  /\ UNCHANGED << calls, inputs, flags, config, idIdx, locals, children, out, results, exitCode, raised >>

\* ------------------------------------------------------------------------
\* ui.js: the launch loop and the summary
\* ------------------------------------------------------------------------

\* workspaces.find((w) => w.id === id)
find(workspaces, id) ==
  IF \E j \in 1..Len(workspaces) : workspaces[j].id = Num(id)
    THEN workspaces[CHOOSE j \in 1..Len(workspaces) :
                      /\ workspaces[j].id = Num(id)
                      /\ \A k \in 1..(j - 1) : workspaces[k].id # Num(id)]
    ELSE NoWorkspace

\* the workspace launchWorkspace is working on
workspace == find(config.workspaces, selectedIds[idIdx])

\* workspace.commands || []
commandsOf(w) == IF w.commandsType = "array" THEN w.commands ELSE << >>

\* one iteration of `for (const id of selectedIds)`, up to the call of
\* launchWorkspace and its first lines
NextId ==
  /\ pc = "loop"
  /\ idIdx <= Len(selectedIds)
  /\ IF workspace # NoWorkspace
       THEN /\ out' = out \o << Blank, Info("Starting", workspace.name), Blank >>
            /\ pc' = "commands"
            /\ ci' = 1
            /\ UNCHANGED << idIdx, notFoundIds >>
       ELSE /\ out' = Append(out, Error("Workspace not found", IntToStr(selectedIds[idIdx])))
            /\ notFoundIds' = Append(notFoundIds, selectedIds[idIdx])
            /\ idIdx' = idIdx + 1
            /\ UNCHANGED << pc, ci >>
  /\ UNCHANGED << calls, inputs, flags, config, selectedIds, bookmarks, commandParts, bi,
                  children, launchedWorkspaces, exitCode, raised >>

\* (mutant) ids that were not found make the pass exit with code 1
summaryExitCodeNotFound(launched, notFound) == IF Len(notFound) > 0 THEN 1 ELSE 0

\* the argument of the process.exit that ends the launch pass
summaryExitCode(launched, notFound) == 0

\* the summary after the loop, and process.exit(0)
Summary ==
  /\ pc = "loop"
  /\ idIdx > Len(selectedIds)
  /\ out' = out \o << Blank >>
        \o (IF Len(launchedWorkspaces) > 0
              THEN << Info(IF argv.dryRun THEN "Planned to launch" ELSE "Successfully launched",
                           << >>) >>
                   \o [i \in 1..Len(launchedWorkspaces) |->
                         Line("log", "launched", launchedWorkspaces[i].name,
                              launchedWorkspaces[i].id.v, 0)]
              ELSE << >>)
        \o (IF Len(notFoundIds) > 0
              THEN << Blank >>
                   \o [i \in 1..Len(notFoundIds) |->
                         Error("Workspace not found", IntToStr(notFoundIds[i]))]
              ELSE << >>)
        \o << Blank >>
  /\ pc' = "exited"
  /\ exitCode' = { summaryExitCode(launchedWorkspaces, notFoundIds) }
  /\ UNCHANGED << calls, inputs, flags, config, selectedIds, idIdx, locals, children, results,
                  raised >>

\* ------------------------------------------------------------------------
\* launcher.js: launchWorkspace
\* ------------------------------------------------------------------------

Bash == << "b", "a", "s", "h" >>
DashC == << "-", "c" >>

\* a child handed to $: the argument vector, whether .quiet() was applied,
\* and the workspace, phase ("command" or "open") and item it belongs to
Child(args, quiet, ws, phase, item) ==
  [args |-> args, quiet |-> quiet, ws |-> ws, phase |-> phase, item |-> item]

\* (mutant) the result of stripInlineComments is not tested
skippedUnlessStripped(cmd) ==
  \/ ~Truthy(cmd)
  \/ StartsWith(Trim(cmd), << "#" >>)

\* `continue` of the command loop: the command is neither run nor reported
skipped(cmd) ==
  \/ ~Truthy(cmd)
  \/ StartsWith(Trim(cmd), << "#" >>)
  \/ stripInlineComments(cmd) = << >>

\* (mutant) the flag is not consulted
dryRunBranchIgnored(dryRun) == FALSE

\* whether the command branch takes the dry-run side (no child is created)
dryRunBranch(dryRun) == dryRun

\* (mutant) the child is not awaited: the loop goes on at once
runCommandNotAwaited(cleanCmd) ==
  /\ spawned' = Append(spawned,
                       Child(<< Bash, DashC, cleanCmd >>, ~isVerbose,
                             workspace.id.v, "command", ci))
  /\ out' = Append(out, Status("Launched", DisplayName(cleanCmd, CmdDisplayMax)))
  /\ ci' = ci + 1
  /\ UNCHANGED pc

\* $`bash -c ${cleanCmd}`, .nothrow() and, unless verbose, .quiet(), then
\* `await shell`: the loop goes on only when the child has ended
runCommand(cleanCmd) ==
  /\ spawned' = Append(spawned,
                       Child(<< Bash, DashC, cleanCmd >>, ~isVerbose,
                             workspace.id.v, "command", ci))
  /\ pc' = "awaitCommand"
  /\ UNCHANGED << ci, out >>

\* one iteration of `for (const cmd of commands)` up to `await shell`, or the
\* end of the loop
CommandStep ==
  /\ pc = "commands"
  /\ LET commands == commandsOf(workspace)
     IN  IF ci > Len(commands)
           THEN /\ pc' = "bookmarks"
                /\ UNCHANGED << ci, spawned, out >>
         ELSE IF skipped(commands[ci])
           THEN /\ ci' = ci + 1
                /\ UNCHANGED << pc, spawned, out >>
         ELSE LET cleanCmd == stripInlineComments(commands[ci])
              IN  IF dryRunBranch(isDryRun)
                    THEN /\ out' = out \o << DryRunLine("Would execute", cleanCmd),
                                             Status("Planned", DisplayName(cleanCmd, CmdDisplayMax)) >>
                         /\ ci' = ci + 1
                         /\ UNCHANGED << pc, spawned >>
                    ELSE runCommand(cleanCmd)
  /\ UNCHANGED << calls, inputs, flags, config, selectedIds, idIdx, bookmarks, commandParts, bi,
                  outcomes, results, exitCode, raised >>

\* whether `await shell` raises for a child that ended this way: .nothrow()
\* makes a non-zero exit code resolve like a zero one
awaitThrows(outcome) == outcome \in { "throw", "throwNotFound" }

\* the lines of a catch block: the report, the tip when the message has
\* "command not found" (commands only), console.error when verbose
caught(report, tip) ==
  << report >> \o tip
    \o (IF isVerbose THEN << Line("console.error", "error", << >>, 0, 0) >> ELSE << >>)

\* (mutant) try around the whole loop: a raised error ends the loop
afterCommandAborting(i, threw, n) == IF threw THEN n + 1 ELSE i + 1

\* the index of the command loop after the command at index i has been
\* handled, normally or by the catch block
afterCommand(i, threw, n) == i + 1

\* `await shell` of a command settles: the rest of the iteration
CommandSettles ==
  /\ pc = "awaitCommand"
  /\ \E outcome \in CommandOutcomes :
       LET cleanCmd == stripInlineComments(commandsOf(workspace)[ci])
       IN  /\ outcomes' = Append(outcomes, outcome)
           /\ out' = out \o
                 (IF awaitThrows(outcome)
                    THEN caught(Error("Failed to launch", cleanCmd),
                                IF outcome = "throwNotFound"
                                  THEN << Info("Tip: Ensure the application is installed", << >>) >>
                                  ELSE << >>)
                    ELSE << Status("Launched", DisplayName(cleanCmd, CmdDisplayMax)) >>)
           /\ ci' = afterCommand(ci, awaitThrows(outcome), Len(commandsOf(workspace)))
  /\ pc' = "commands"
  /\ UNCHANGED << calls, inputs, flags, config, selectedIds, idIdx, bookmarks, commandParts, bi,
                  spawned, results, exitCode, raised >>

\* (mutant) launchWorkspace has normalised the record in place
\* (workspace.commands = workspace.commands || []) before it is pushed
ReturnNormalised ==
  /\ launchedWorkspaces' =
       Append(launchedWorkspaces,
              [workspace EXCEPT !.commandsType = "array", !.commands = commandsOf(workspace)])
  /\ idIdx' = idIdx + 1
  /\ pc' = "loop"
  /\ ci' = 1
  /\ bookmarks' = << >>
  /\ commandParts' = << >>
  /\ bi' = 1
  /\ UNCHANGED raised

\* `return` of launchWorkspace and, back in selectAndLaunchWorkspaces,
\* launchedWorkspaces.push(workspace) and the next iteration
Return ==
  /\ launchedWorkspaces' = Append(launchedWorkspaces, workspace)
  /\ idIdx' = idIdx + 1
  /\ pc' = "loop"
  /\ ci' = 1
  /\ bookmarks' = << >>
  /\ commandParts' = << >>
  /\ bi' = 1
  /\ UNCHANGED raised

\* an error raised outside every try block: launchWorkspace rejects, and so
\* does selectAndLaunchWorkspaces, which awaits it outside any try block
Fault(expression) ==
  /\ pc' = "fault"
  /\ raised' = expression
  /\ UNCHANGED << idIdx, locals, launchedWorkspaces >>

\* config.settings?.bookmarks_open_in || "xdg-open"
browserCommandOf(cfg) ==
  IF Truthy(cfg.settings.bookmarks_open_in) THEN cfg.settings.bookmarks_open_in
  ELSE XdgOpen

\* commandParts[0].endsWith("xdg-open"), for a non-empty commandParts
isXdgOpen(parts) == EndsWith(parts[1], XdgOpen)

\* [...commandParts, bookmark.url]
oneUrlCommand(parts, bms, i) == Append(parts, bms[i].url)

\* [...commandParts, ...urls]
allUrlsCommand(parts, bms) == parts \o [i \in 1..Len(bms) |-> bms[i].url]

\* (mutant) the length is compared with >= 0
hasBookmarksOrNone(bms) == Len(bms) >= 0

\* bookmarks.length > 0
hasBookmarks(bms) == Len(bms) > 0

\* the progress lines of the dry-run branch
dryRunOpenLines(parts, bms) ==
  IF isXdgOpen(parts)
    THEN [i \in 1..Len(bms) |->
            Progress(i, Len(bms), "[DRY RUN] Would open", bms[i].name)]
    ELSE << DryRunLine("Would open bookmarks as tabs", NatToStr(Len(bms))) >>
           \o [i \in 1..Len(bms) |-> Progress(i, Len(bms), "[DRY RUN]", bms[i].name)]

\* the "Opened" progress line of bookmark i
openedLine(bms, i) ==
  Progress(i, Len(bms), "Opened", DisplayName(bms[i].name, NameDisplayMax))

\* `if (workspace.bookmarks_folder) { ... }` up to the first `await shell`,
\* or to the end of launchWorkspace
BookmarksPhase ==
  /\ pc = "bookmarks"
  /\ IF ~Truthy(workspace.bookmarks_folder)
       THEN Return /\ UNCHANGED << spawned, out >>
     ELSE
       LET bookmarksPath == getBookmarksFilePath(config)
           r == getBookmarksFromFolder(bookmarksPath, bookmarksFile,
                                       workspace.bookmarks_folder)
           parts == parseCommandString(browserCommandOf(config))
           opening == Info("Opening bookmark(s) from", workspace.bookmarks_folder)
       IN  IF ~Truthy(bookmarksPath)
             THEN /\ out' = out \o << Error("Bookmarks file path not configured", << >>),
                                      Info("Add 'bookmarks_file' in [settings]", << >>) >>
                  /\ Return
                  /\ UNCHANGED spawned
           ELSE IF r.threw
             THEN /\ out' = out \o r.out
                  /\ Fault("getBookmarksFromFolder")
                  /\ UNCHANGED spawned
           ELSE IF ~hasBookmarks(r.bookmarks)
             THEN /\ out' = out \o r.out
                               \o << Error("No bookmarks found in folder",
                                           workspace.bookmarks_folder),
                                     Info("Tip: Check the folder path in your config", << >>) >>
                  /\ Return
                  /\ UNCHANGED spawned
           ELSE IF parts = << >>
             THEN /\ out' = out \o r.out \o << opening >>
                  /\ Fault("commandParts[0].endsWith")
                  /\ UNCHANGED spawned
           ELSE IF isDryRun
             THEN /\ out' = out \o r.out \o << opening >> \o dryRunOpenLines(parts, r.bookmarks)
                  /\ Return
                  /\ UNCHANGED spawned
           ELSE IF isXdgOpen(parts) /\ Len(r.bookmarks) = 0
             THEN /\ out' = out \o r.out \o << opening >>
                  /\ Return
                  /\ UNCHANGED spawned
           ELSE /\ out' = out \o r.out \o << opening >>
                /\ spawned' = Append(spawned,
                                IF isXdgOpen(parts)
                                  THEN Child(oneUrlCommand(parts, r.bookmarks, 1), ~isVerbose,
                                             workspace.id.v, "open", 1)
                                  ELSE Child(allUrlsCommand(parts, r.bookmarks), ~isVerbose,
                                             workspace.id.v, "open", 1))
                /\ bookmarks' = r.bookmarks
                /\ commandParts' = parts
                /\ bi' = 1
                /\ pc' = "awaitOpen"
                /\ UNCHANGED << idIdx, ci, launchedWorkspaces, raised >>
  /\ UNCHANGED << calls, inputs, flags, config, selectedIds, outcomes, notFoundIds, exitCode >>

\* `await shell` of an open invocation settles: the rest of the try block,
\* up to the next `await shell` or to the end of launchWorkspace
OpenSettles ==
  /\ pc = "awaitOpen"
  /\ \E outcome \in Outcomes :
       /\ outcomes' = Append(outcomes, outcome)
       /\ IF awaitThrows(outcome)
            THEN /\ out' = out \o caught(Error("Failed to open bookmarks", << >>),
                                         << Info("Tip: Check your browser command", << >>) >>)
                 /\ Return
                 /\ UNCHANGED spawned
          ELSE IF isXdgOpen(commandParts)
            THEN /\ out' = Append(out, openedLine(bookmarks, bi))
                 /\ IF bi < Len(bookmarks)
                      THEN /\ spawned' = Append(spawned,
                                           Child(oneUrlCommand(commandParts, bookmarks, bi + 1),
                                                 ~isVerbose, workspace.id.v, "open", bi + 1))
                           /\ bi' = bi + 1
                           /\ UNCHANGED << pc, idIdx, ci, bookmarks, commandParts,
                                           launchedWorkspaces, raised >>
                      ELSE Return /\ UNCHANGED spawned
          ELSE /\ out' = out \o [i \in 1..Len(bookmarks) |-> openedLine(bookmarks, i)]
               /\ Return
               /\ UNCHANGED spawned
  /\ UNCHANGED << calls, inputs, flags, config, selectedIds, notFoundIds, exitCode, raised >>

Next ==
  \/ Start
  \/ ReadSelection
  \/ NextId
  \/ Summary
  \/ CommandStep
  \/ CommandSettles
  \/ BookmarksPhase
  \/ OpenSettles

Spec == Init /\ [][Next]_vars

\* ------------------------------------------------------------------------
\* utils.js: setupGracefulShutdown, and a launch pass under interrupt
\* ------------------------------------------------------------------------

\* the entry point installs the handlers of setupGracefulShutdown before it
\* calls selectAndLaunchWorkspaces
handlersInstalled == TRUE

\* the points where selectAndLaunchWorkspaces is suspended (await
\* getUserInput, await shell): the only points where the runtime can run a
\* signal handler, since a handler never preempts running JavaScript
suspended == pc \in { "prompt", "awaitCommand", "awaitOpen" }

\* the lines of the SIGINT handler
cancelledNotice ==
  << Line("log", "", << "\n" >>, 0, 0), Status("Cancelled by user", << >>), Blank >>

\* (mutant) the handler prints its notice and returns: the pass resumes
sigintExitMissing(p) == p

\* where the run stands after the SIGINT handler: process.exit(0) ends it
sigintExit(p) == "exited"

\* the SIGINT handler runs: a signal that arrived while the pass was running
\* is handled at the next point where the pass is suspended
Interrupt ==
  /\ handlersInstalled
  /\ suspended
  /\ out' = out \o cancelledNotice
  /\ pc' = sigintExit(pc)
  /\ exitCode' = IF sigintExit(pc) = "exited" THEN {0} ELSE exitCode
  /\ UNCHANGED << calls, inputs, flags, config, selectedIds, idIdx, locals, children, results,
                  raised >>

NextInterrupt ==
  \/ Next
  \/ Interrupt

SpecInterrupt == Init /\ [][NextInterrupt]_vars

\* ------------------------------------------------------------------------
\* A launch pass given a custom configuration path (--config <path>)
\* ------------------------------------------------------------------------

CustomPath == << "/", "c" >>

\* the workspaces of the file at the custom path: ids 1 and 4
CustomWorkspaces ==
  << Workspace(Num(1), << "a", "l", "t" >>, "array", << << "z" >> >>, Undef),
     Workspace(Num(4), << "m", "o", "r", "e" >>, "array", << << "y" >> >>, << "b", "o", "o", "k", "m", "a", "r", "k", "_", "b", "a", "r", "/", "F" >>) >>

\* a pass with a custom path: the file at that path holds CustomWorkspaces,
\* the file at CONFIG_PATH the four workspaces of WorkspacesOk or is missing
InitCustomConfig ==
  /\ argv \in [preSelected : { Undef, << "1" >>, << "4", ",", "3" >> }, dryRun : BOOLEAN, verbose : { FALSE },
               customConfigPath : { CustomPath }]
  /\ configFile \in { ConfigFileOf(Config(BookmarksPath, Undef, TRUE, WorkspacesOk)),
                      MissingConfigFile }
  /\ exampleFile = MissingConfigFile
  /\ bookmarksFile = [state |-> "ok", json |-> FullDocument]
  /\ customConfigFile = ConfigFileOf(Config(BookmarksPath, Undef, TRUE, CustomWorkspaces))
  /\ isDryRun = FALSE
  /\ isVerbose = FALSE
  /\ pc = "start"
  /\ config = NoConfig
  /\ selectedIds = << >>
  /\ idIdx = 1
  /\ ci = 1
  /\ bookmarks = << >>
  /\ commandParts = << >>
  /\ bi = 1
  /\ spawned = << >>
  /\ outcomes = << >>
  /\ out = << >>
  /\ launchedWorkspaces = << >>
  /\ notFoundIds = << >>
  /\ exitCode = {}
  /\ raised = ""
  /\ call = NoCall
  /\ ret = NoRet

SpecCustomConfig == InitCustomConfig /\ [][Next]_vars

\* ------------------------------------------------------------------------
\* The helpers called on their own: one call, then its return
\* ------------------------------------------------------------------------

\* the longest generated argument string
MaxLen == 4

\* every string over the alphabet of length at most n
StringsOver(alphabet, n) == UNION { [1..k -> alphabet] : k \in 0..n }

\* command strings: quotes, the comment sign, the backslash, a space
CommandPool ==
  StringsOver({ "a", " ", "\"", "'", "#", "\\" }, MaxLen)
    \cup { Undef,
           << "o", "p", "e", "n", " ", "\"", "a", " ", "b", "\"", " ", "c" >>,
           << "a", " ", "\"", "\"", " ", "b" >>,
           << "a", "\t", "b", " ", "c" >>,
           << "e", "c", "h", "o", " ", "h", "i", " ", "#", " ", "c", "o", "m", "m", "e", "n", "t" >>,
           << "e", "c", "h", "o", " ", "\"", "a", " ", "#", " ", "b", "\"" >> }

\* selections: digits, the range and list separators, a space, a letter
SelectionPool ==
  StringsOver({ "1", "3", "-", ",", " ", "x" }, MaxLen)
    \cup { Undef, << "1", ",", "3", "-", "5", ",", "7" >>, << "5", " ", "-", " ", "7", ",", "5", "-", "3", ",", "6" >> }

\* a document whose bar holds a url and two folders of the same name F, the
\* first with two folders named R around a url; its synced root holds urls
\* only and the only url of its other root is in a subfolder
NestedDocument ==
  Json("object", TRUE,
       FolderNode(<< "B", "o", "o", "k", "m", "a", "r", "k", "s", " ", "b", "a", "r" >>,
                  << UrlNode(<< "F" >>, << "f" >>),
                     FolderNode(<< "F" >>, << FolderNode(<< "R" >>, << UrlAt(1) >>),
                                         UrlAt(2),
                                         FolderNode(<< "R" >>, << UrlAt(3) >>) >>),
                     FolderNode(<< "F" >>, << UrlAt(4) >>) >>),
       FolderNode(<< "O", "t", "h", "e", "r", " ", "b", "o", "o", "k", "m", "a", "r", "k", "s" >>,
                  << FolderNode(<< "R" >>, << UrlAt(7) >>) >>),
       FolderNode(<< "M", "o", "b", "i", "l", "e", " ", "b", "o", "o", "k", "m", "a", "r", "k", "s" >>, << UrlAt(5), UrlAt(6) >>))

DocumentPool ==
  { FullDocument, SparseDocument, NestedDocument,
    Json("object", FALSE, NoNode, NoNode, NoNode) }

\* first segments: the six aliases, case variants, a name of
\* Object.prototype, an unknown name, the empty name, a padded alias
FirstSegmentPool ==
  { << "B", "o", "o", "k", "m", "a", "r", "k", "s", " ", "b", "a", "r" >>, << "b", "o", "o", "k", "m", "a", "r", "k", "_", "b", "a", "r" >>, << "O", "t", "h", "e", "r", " ", "b", "o", "o", "k", "m", "a", "r", "k", "s" >>, << "o", "t", "h", "e", "r" >>,
    << "M", "o", "b", "i", "l", "e", " ", "b", "o", "o", "k", "m", "a", "r", "k", "s" >>, << "s", "y", "n", "c", "e", "d" >>, << "b", "o", "o", "k", "m", "a", "r", "k", "s", " ", "b", "a", "r" >>, << "O", "T", "H", "E", "R" >>,
    << "c", "o", "n", "s", "t", "r", "u", "c", "t", "o", "r" >>, << "n", "o", "p", "e" >>, << >>, << " ", "s", "y", "n", "c", "e", "d", " " >> }

SegmentPool == { << "F" >>, << "R" >>, << "f" >>, << "n", "2" >>, << " ", "R", " " >> }

\* folder paths of one to three segments
FolderPathPool ==
  { Join(<< first >> \o rest, "/") :
      first \in FirstSegmentPool,
      rest \in UNION { [1..k -> SegmentPool] : k \in 0..2 } }

\* every node of a tree, the root included
RECURSIVE nodesOf(_)
nodesOf(node) ==
  { node } \cup UNION { nodesOf(node.children[i]) : i \in 1..Len(node.children) }

\* the nodes extractUrlsFromFolder is called on: every node of every
\* document, an absent root included
FolderPool ==
  UNION { nodesOf(d.roots.bookmark_bar) \cup nodesOf(d.roots.other) \cup nodesOf(d.roots.synced) :
            d \in DocumentPool }

CallPool ==
  { [fn |-> "findBookmarkFolder", bookmarks |-> d, folderPath |-> p] :
      d \in DocumentPool, p \in FolderPathPool }
    \cup { [fn |-> "extractUrlsFromFolder", folder |-> f, recursive |-> r] :
             f \in FolderPool, r \in BOOLEAN }
    \cup { [fn |-> "parseCommandString", command |-> c] : c \in CommandPool }
    \cup { [fn |-> "stripInlineComments", cmd |-> c] : c \in CommandPool }
    \cup { [fn |-> "parseSelection", selection |-> s] : s \in SelectionPool }

\* no launch is under way: one call is about to be made
InitCalls ==
  /\ call \in CallPool
  /\ ret = NoRet
  /\ argv = [preSelected |-> Undef, dryRun |-> FALSE, verbose |-> FALSE,
             customConfigPath |-> Undef]
  /\ customConfigFile = MissingConfigFile
  /\ configFile = MissingConfigFile
  /\ exampleFile = MissingConfigFile
  /\ bookmarksFile = [state |-> "missing", json |-> NullJson]
  /\ isDryRun = FALSE
  /\ isVerbose = FALSE
  /\ pc = "call"
  /\ config = NoConfig
  /\ selectedIds = << >>
  /\ idIdx = 1
  /\ ci = 1
  /\ bookmarks = << >>
  /\ commandParts = << >>
  /\ bi = 1
  /\ spawned = << >>
  /\ outcomes = << >>
  /\ out = << >>
  /\ launchedWorkspaces = << >>
  /\ notFoundIds = << >>
  /\ exitCode = {}
  /\ raised = ""

launch ==
  << inputs, flags, config, selectedIds, idIdx, locals, children, results, exitCode >>

\* the call returns value
Returns(value) ==
  /\ pc = "call"
  /\ pc' = "returned"
  /\ ret' = [returned |-> TRUE, value |-> value]
  /\ UNCHANGED << call, launch >>

\* findBookmarkFolder prints on console.error and returns the folder or
\* null, or raises a TypeError
FindBookmarkFolder ==
  /\ call.fn = "findBookmarkFolder"
  /\ LET r == findBookmarkFolder(call.bookmarks, call.folderPath)
     IN  /\ Returns(r)
         /\ out' = out \o r.out
         /\ raised' = IF r.threw THEN "findBookmarkFolder" ELSE raised

ExtractUrlsFromFolder ==
  /\ call.fn = "extractUrlsFromFolder"
  /\ Returns(extractUrlsFromFolder(call.folder, call.recursive))
  /\ UNCHANGED << out, raised >>

ParseCommandString ==
  /\ call.fn = "parseCommandString"
  /\ Returns(parseCommandString(call.command))
  /\ UNCHANGED << out, raised >>

StripInlineComments ==
  /\ call.fn = "stripInlineComments"
  /\ Returns(stripInlineComments(call.cmd))
  /\ UNCHANGED << out, raised >>

ParseSelection ==
  /\ call.fn = "parseSelection"
  /\ Returns(parseSelection(call.selection))
  /\ UNCHANGED << out, raised >>

NextCalls ==
  \/ FindBookmarkFolder
  \/ ExtractUrlsFromFolder
  \/ ParseCommandString
  \/ StripInlineComments
  \/ ParseSelection

SpecCalls == InitCalls /\ [][NextCalls]_vars

\* ------------------------------------------------------------------------
\* management.js: addWorkspace, editWorkspace, deleteWorkspace
\* ------------------------------------------------------------------------

\* utils.js: the keys of the exported object print.  colors is a separate
\* export of utils.js and no key of print.
PrintKeys == { "status", "error", "info", "workspace", "cyan", "progress", "dryRun" }

\* management.js builds every prompt from print.colors.<name>: print.colors
\* is undefined, and reading a property of undefined raises a TypeError
PrintColorsRaises == "colors" \notin PrintKeys

\* Math.max(...config.workspaces.map((w) => w.id), 0) + 1, for ids that are
\* numbers
newId(workspaces) ==
  LET ids == { workspaces[i].id.v : i \in 1..Len(workspaces) } \cup { 0 }
  IN  (CHOOSE m \in ids : \A n \in ids : n <= m) + 1

\* what the operator has typed ahead on stdin, line by line
StdinPool ==
  { << >>,
    << << "d" >>, << "c" >>, << >>, << "o", "t", "h", "e", "r" >> >>,
    << << "1" >>, << "B" >>, << "4" >>, << "c", "l", "e", "a", "r" >> >>,
    << << "1", "-", "2" >>, << "y", "e", "s" >> >> }

\* no process is running; the configuration file is any file of the pool
InitManage ==
  /\ configFile \in ConfigFilePool
  /\ exampleFile \in
       IF configFile.state = "missing"
         THEN { MissingConfigFile, ConfigFileOf(Config(Undef, Undef, TRUE, WorkspacesOk)) }
         ELSE { MissingConfigFile }
  /\ pc = "shell"
  /\ call = NoCall
  /\ ret = NoRet
  /\ argv = [preSelected |-> Undef, dryRun |-> FALSE, verbose |-> FALSE,
             customConfigPath |-> Undef]
  /\ customConfigFile = MissingConfigFile
  /\ bookmarksFile = [state |-> "missing", json |-> NullJson]
  /\ isDryRun = FALSE
  /\ isVerbose = FALSE
  /\ config = NoConfig
  /\ selectedIds = << >>
  /\ idIdx = 1
  /\ ci = 1
  /\ bookmarks = << >>
  /\ commandParts = << >>
  /\ bi = 1
  /\ spawned = << >>
  /\ outcomes = << >>
  /\ out = << >>
  /\ launchedWorkspaces = << >>
  /\ notFoundIds = << >>
  /\ exitCode = {}
  /\ raised = ""

\* the operator starts fn in a process of its own, with stdin typed ahead
Run(fn) == \E stdin \in StdinPool : call' = [fn |-> fn, stdin |-> stdin]

\* One run of a management function, given the lines
\* it prints before it first uses config.workspaces as an array, the lines
\* from there to its first prompt, and the expression that builds that
\* prompt.  The run ends in loadConfig (process.exit(1), or the error of
\* Bun.TOML.parse), at the array method of a workspaces value that is no
\* array, or at the prompt expression: before anything is read from stdin
\* and before config is changed or saved.
Manage(first, rest, prompt) ==
  /\ pc \in { "shell", "exited", "fault" }
  /\ PrintColorsRaises
  /\ LET l == loadConfig(configFile, exampleFile)
     IN  /\ configFile' = l.file
         /\ config' = l.config
         /\ IF l.result = "exit"
              THEN /\ out' = l.out
                   /\ pc' = "exited"
                   /\ exitCode' = {1}
                   /\ raised' = ""
            ELSE IF l.result = "throw"
              THEN /\ out' = l.out
                   /\ pc' = "fault"
                   /\ exitCode' = {}
                   /\ raised' = "Bun.TOML.parse"
            ELSE IF ~l.config.workspacesIsArray
              THEN /\ out' = l.out \o first
                   /\ pc' = "fault"
                   /\ exitCode' = {}
                   /\ raised' = "config.workspaces"
            ELSE /\ out' = l.out \o first \o rest
                 /\ pc' = "fault"
                 /\ exitCode' = {}
                 /\ raised' = prompt
  /\ UNCHANGED << ret, argv, exampleFile, bookmarksFile, customConfigFile, flags, selectedIds, idIdx,
                  locals, children, results >>

\* console.log(""); print.info(title); console.log("")
heading(title) == << Blank, Info(title, << >>), Blank >>

\* the configuration loadConfig gives the run
loaded == loadConfig(configFile, exampleFile).config

\* newId is computed from config.workspaces before the heading is printed
AddWorkspace ==
  /\ Run("addWorkspace")
  /\ Manage(<< >>, heading("Add New Workspace"), "print.colors.cyan")

\* the heading, then print.workspace for every workspace
EditWorkspace ==
  /\ Run("editWorkspace")
  /\ Manage(heading("Edit Workspace"), listing(loaded.workspaces) \o << Blank >>,
            "print.colors.yellow")

DeleteWorkspace ==
  /\ Run("deleteWorkspace")
  /\ Manage(heading("Delete Workspace"), listing(loaded.workspaces) \o << Blank >>,
            "print.colors.yellow")

NextManage ==
  \/ AddWorkspace
  \/ EditWorkspace
  \/ DeleteWorkspace

SpecManage == InitManage /\ [][NextManage]_vars

\* ------------------------------------------------------------------------
\* Properties of a launch
\* ------------------------------------------------------------------------

\* the argument vectors of the children of workspace id w in one phase, in
\* the order they were handed to $
argsOf(w, phase) ==
  LET cs == SelectSeq(spawned, LAMBDA c : c.ws = w /\ c.phase = phase)
  IN  [i \in 1..Len(cs) |-> cs[i].args]

\* the comment-stripped texts of the commands among the first k that the
\* command loop does not skip, in declaration order
RECURSIVE executed(_, _)
executed(commands, k) ==
  IF k = 0 THEN << >>
  ELSE IF skipped(commands[k]) THEN executed(commands, k - 1)
  ELSE Append(executed(commands, k - 1), stripInlineComments(commands[k]))

\* the workspace selected at position p, NoWorkspace when its id is unknown
selectedAt(p) == find(config.workspaces, selectedIds[p])

\* how many commands of the workspace at position p the command loop has
\* gone through
handled(p) ==
  IF p < idIdx THEN Len(commandsOf(selectedAt(p)))
  ELSE IF p > idIdx THEN 0
  ELSE CASE pc = "commands" -> ci - 1
         [] pc = "awaitCommand" -> ci
         [] pc \in { "bookmarks", "awaitOpen", "fault" } -> Len(commandsOf(selectedAt(p)))
         [] OTHER -> 0

\* launchWorkspace has ended, by return or by an error, for position p
ended(p) == p < idIdx \/ (p = idIdx /\ pc = "fault")

\* the lines printed with message msg
linesWith(msg) == SelectSeq(out, LAMBDA l : l.msg = msg)

\* what the resolver yields for workspace w under the loaded configuration
resolved(w) ==
  getBookmarksFromFolder(config.settings.bookmarks_file, bookmarksFile, w.bookmarks_folder)

\* C1: in a live launch every command that is not skipped is handed to the
\* shell exactly once, as bash -c <stripped text>, in declaration order,
\* whatever the outcomes of the commands before it.
C1_EveryCommandHandedOnce ==
  ~argv.dryRun =>
    \A p \in 1..Len(selectedIds) :
      selectedAt(p) # NoWorkspace =>
        LET texts == executed(commandsOf(selectedAt(p)), handled(p))
        IN  argsOf(selectedAt(p).id.v, "command")
              = [i \in 1..Len(texts) |-> << Bash, DashC, texts[i] >>]

\* C1 witness: the three commands of workspace 1 were handed over although
\* the first raised a spawn error and the second exited non-zero
C1_Witness ==
  /\ pc = "bookmarks"
  /\ ~argv.dryRun
  /\ workspace.id = Num(1)
  /\ Len(spawned) >= 3
  /\ outcomes[1] = "throw"
  /\ outcomes[2] = "nonzero"

\* C2: the number of "Failed to launch" reports equals the number of
\* executed commands whose child exited non-zero or failed to spawn.
C2_FailureReportPerFailedCommand ==
  Len(linesWith("Failed to launch"))
    = Cardinality({ i \in 1..Len(outcomes) :
                      spawned[i].phase = "command" /\ outcomes[i] # "ok" })

\* C3: in dry-run mode no child is ever handed to the shell primitive, for
\* commands or for bookmarks.
C3_DryRunSpawnsNothing ==
  argv.dryRun => spawned = << >> /\ outcomes = << >>

\* C3 witness: a dry run that ended after planning a command and reporting
\* the bookmarks it would open
C3_Witness ==
  /\ argv.dryRun
  /\ pc = "exited"
  /\ Len(linesWith("Would execute")) > 0
  /\ Len(linesWith("[DRY RUN] Would open")) > 0

\* the open invocations C4 states for a tokenized open command and the
\* resolved bookmarks
opensStated(parts, bms) ==
  IF parts # << >> /\ isXdgOpen(parts)
    THEN [i \in 1..Len(bms) |-> oneUrlCommand(parts, bms, i)]
    ELSE << allUrlsCommand(parts, bms) >>

\* C4: a live launch with N >= 1 resolved bookmarks spawns N one-URL
\* invocations in bookmark order when the first token ends in xdg-open, and
\* one invocation with all N URLs otherwise.
C4_OpenInvocations ==
  ~argv.dryRun =>
    \A p \in 1..Len(selectedIds) :
      LET w == selectedAt(p)
      IN  ( /\ ended(p)
            /\ w # NoWorkspace
            /\ Truthy(w.bookmarks_folder)
            /\ Truthy(config.settings.bookmarks_file)
            /\ ~resolved(w).threw
            /\ Len(resolved(w).bookmarks) >= 1 )
          => argsOf(w.id.v, "open")
               = opensStated(parseCommandString(browserCommandOf(config)),
                             resolved(w).bookmarks)

\* where a child stands in the declaration order of a launch pass
phaseRank(c) == IF c.phase = "command" THEN 0 ELSE 1
before(c, d) ==
  LET pc_ == CHOOSE p \in 1..Len(selectedIds) : selectedIds[p] = c.ws
      pd == CHOOSE p \in 1..Len(selectedIds) : selectedIds[p] = d.ws
  IN  \/ pc_ < pd
      \/ pc_ = pd /\ phaseRank(c) < phaseRank(d)
      \/ pc_ = pd /\ phaseRank(c) = phaseRank(d) /\ c.item < d.item

\* the per-command result lines, in print order
commandReports == SelectSeq(out, LAMBDA l : l.msg \in { "Launched", "Failed to launch" })
commandChildren == SelectSeq(spawned, LAMBDA c : c.phase = "command")

\* C5: at most one child is in flight, and only while launchWorkspace awaits
\* it; children are started in declaration order (workspace, then commands
\* before bookmarks, then item) and the command reports follow that order.
C5_OneChildAtATime ==
  /\ Len(spawned) - Len(outcomes) \in { 0, 1 }
  /\ Len(spawned) - Len(outcomes) = 1 <=> pc \in { "awaitCommand", "awaitOpen" }
  /\ \A i, j \in 1..Len(spawned) : i < j => before(spawned[i], spawned[j])
  /\ Len(commandReports) <= Len(commandChildren)
  /\ \A k \in 1..Len(commandReports) :
       commandReports[k].text \in
         { commandChildren[k].args[3], DisplayName(commandChildren[k].args[3], CmdDisplayMax) }

\* C5 witness: the second xdg-open invocation of workspace 3 is awaited
\* after the commands and the bookmark of workspace 2 have ended
C5_Witness ==
  /\ pc = "awaitOpen"
  /\ workspace.id = Num(3)
  /\ bi = 2
  /\ Len(spawned) = 5
  /\ Len(outcomes) = 4

\* the messages the bookmarks phase prints once the bookmarks path is known
ResolutionMessages ==
  { "Bookmarks file not found", "Failed to parse bookmarks file", "Root folder not found",
    "Folder not found", "is not a folder", "Opening bookmark(s) from",
    "No bookmarks found in folder", "Failed to open bookmarks" }

\* C6: with no bookmarks_file setting, a workspace with a bookmarks folder
\* gets the configuration error and nothing else of the bookmarks phase: no
\* file is read, no folder resolved, no open invocation spawned, no error
\* raised; its commands have been handed over as for any workspace.
C6_NoBookmarksFileSetting ==
  (pc # "start" /\ configFile.state = "ok" /\ ~Truthy(config.settings.bookmarks_file)) =>
    /\ \A i \in 1..Len(spawned) : spawned[i].phase = "command"
    /\ \A i \in 1..Len(out) : out[i].msg \notin ResolutionMessages
    /\ raised = ""
    /\ Len(linesWith("Bookmarks file path not configured"))
         = Cardinality({ p \in 1..Len(selectedIds) :
                           /\ p < idIdx
                           /\ selectedAt(p) # NoWorkspace
                           /\ Truthy(selectedAt(p).bookmarks_folder) })
    /\ \A p \in 1..Len(selectedIds) :
         (p < idIdx /\ selectedAt(p) # NoWorkspace /\ ~argv.dryRun) =>
           Len(argsOf(selectedAt(p).id.v, "command"))
             = Len(executed(commandsOf(selectedAt(p)), Len(commandsOf(selectedAt(p)))))

\* C6 witness: workspace 2 (two executed commands, a bookmarks folder) was
\* launched live under a configuration without bookmarks_file
C6_Witness ==
  /\ pc = "loop"
  /\ ~argv.dryRun
  /\ ~Truthy(config.settings.bookmarks_file)
  /\ Len(launchedWorkspaces) > 0
  /\ launchedWorkspaces[1].id = Num(2)
  /\ Len(spawned) = 2
  /\ Len(linesWith("Bookmarks file path not configured")) = 1

\* C7: when resolution yields no bookmark, the launch reports "no bookmarks
\* found" for the folder and spawns no open invocation, live or dry.
C7_NoBookmarksFound ==
  \A p \in 1..Len(selectedIds) :
    LET w == selectedAt(p)
    IN  ( /\ p < idIdx
          /\ w # NoWorkspace
          /\ Truthy(w.bookmarks_folder)
          /\ Truthy(config.settings.bookmarks_file)
          /\ ~resolved(w).threw
          /\ Len(resolved(w).bookmarks) = 0 )
        => /\ argsOf(w.id.v, "open") = << >>
           /\ Len(SelectSeq(out, LAMBDA l : /\ l.msg = "No bookmarks found in folder"
                                            /\ l.text = w.bookmarks_folder)) = 1
           /\ \A i \in 1..Len(out) :
                out[i].msg = "Opening bookmark(s) from" => out[i].text # w.bookmarks_folder

\* C7 witness: live, the folder of workspace 5 is missing from the document
\* and the launch of workspace 5 has returned
C7_Witness ==
  /\ ~argv.dryRun
  /\ pc = "loop"
  /\ bookmarksFile.state = "ok"
  /\ bookmarksFile.json = FullDocument
  /\ Len(launchedWorkspaces) > 0
  /\ launchedWorkspaces[Len(launchedWorkspaces)].id = Num(5)
  /\ Len(linesWith("Folder not found")) = 1
  /\ Len(linesWith("No bookmarks found in folder")) = 1

\* C8: getBookmarksFromFolder never raises an error.
C8_ResolverNeverRaises == raised # "getBookmarksFromFolder"

\* C9: launchWorkspace ends normally for a validated configuration; the
\* xdg-open test on the first token of the open command does not fault.
C9_XdgOpenTestNeverFaults == raised # "commandParts[0].endsWith"

\* the selection given as argument names no id
emptyPreSelection ==
  Truthy(argv.preSelected) /\ parseSelection(argv.preSelected) = << >>

statedInvalid(cfg) ==
  \/ ~cfg.workspacesIsArray
  \/ \E i, j \in 1..Len(cfg.workspaces) : i # j /\ cfg.workspaces[i].id = cfg.workspaces[j].id
  \/ \E i \in 1..Len(cfg.workspaces) :
       LET w == cfg.workspaces[i]
       IN  \/ w.id.t # "number"
           \/ w.name = Undef \/ \A k \in 1..Len(w.name) : IsSpace(w.name[k])
           \/ w.commandsType = "string"

\* C11: when the configuration read has duplicate workspace ids, a missing
\* or non-number id, an empty name, a workspaces value that is not an array
\* or a commands value that is not an array, the run has exited with code 1
\* after reporting the configuration errors, and it has launched nothing: no
\* child was spawned, no workspace was started and none was recorded.
C11_InvalidConfigurationExitsBeforeLaunch ==
  (pc # "start" /\ configFile.state = "ok" /\ statedInvalid(configFile.config)) =>
    /\ pc = "exited"
    /\ exitCode = {1}
    /\ spawned = << >> /\ outcomes = << >>
    /\ launchedWorkspaces = << >> /\ notFoundIds = << >>
    /\ linesWith("Starting") = << >>
    /\ Len(linesWith("Configuration errors")) = 1

\* C11 witness: a run given a selection and a configuration with two
\* workspaces of id 1 has exited with code 1 on the duplicate-id error
C11_Witness ==
  /\ pc = "exited"
  /\ exitCode = {1}
  /\ Truthy(argv.preSelected)
  /\ configFile.state = "ok"
  /\ Len(configFile.config.workspaces) = 2
  /\ configFile.config.workspaces[1].id = configFile.config.workspaces[2].id
  /\ Len(linesWith("Duplicate workspace IDs found")) = 1
  /\ spawned = << >>

\* ------------------------------------------------------------------------
\* Properties of the helpers
\* ------------------------------------------------------------------------

\* the call under study is a call of fn that has returned
returned(fn) == call.fn = fn /\ ret.returned

\* the trimmed segments of the folder path of the call
segments ==
  LET split == Split(call.folderPath, "/")
  IN  [i \in 1..Len(split) |-> Trim(split[i])]

\* the root the alias table gives for a first segment, NoNode for a segment
\* that is not an alias
aliased(roots, first) ==
  CASE first \in { << "B", "o", "o", "k", "m", "a", "r", "k", "s", " ", "b", "a", "r" >>, << "b", "o", "o", "k", "m", "a", "r", "k", "_", "b", "a", "r" >> } -> roots.bookmark_bar
    [] first \in { << "O", "t", "h", "e", "r", " ", "b", "o", "o", "k", "m", "a", "r", "k", "s" >>, << "o", "t", "h", "e", "r" >> } -> roots.other
    [] first \in { << "M", "o", "b", "i", "l", "e", " ", "b", "o", "o", "k", "m", "a", "r", "k", "s" >>, << "s", "y", "n", "c", "e", "d" >> } -> roots.synced
    [] OTHER -> NoNode

rootNotFound(first) ==
  << Error("Root folder not found", first), Info("Available roots", << >>) >>

\* C12: on a document with a roots object, the resolution of a path whose
\* first segment is no alias, or is an alias of an absent root, fails with
\* the root-not-found report and no folder; a path that is only an alias of
\* a present root resolves to that root.
C12_AliasTableOnly ==
  (returned("findBookmarkFolder") /\ call.bookmarks.hasRoots) =>
    LET root == aliased(call.bookmarks.roots, segments[1])
    IN  IF root = NoNode
          THEN /\ ~ret.value.threw /\ ~ret.value.found
               /\ ret.value.node = NoNode
               /\ ret.value.out = rootNotFound(segments[1])
          ELSE Len(segments) = 1 => (ret.value.found /\ ret.value.node = root)

\* the first child of node that is a folder named name, NoNode if none
folderNamed(node, name) ==
  LET js == { j \in 1..Len(node.children) :
                node.children[j].type = "folder" /\ node.children[j].name = name }
  IN  IF js = {} THEN NoNode
      ELSE node.children[CHOOSE j \in js : \A k \in js : j <= k]

\* the node reached by the first i segments of the call from its root,
\* NoNode once a segment names no folder child
RECURSIVE reached(_)
reached(i) ==
  IF i = 1 THEN rootMap(call.bookmarks.roots, segments[1])
  ELSE IF reached(i - 1) = NoNode THEN NoNode
  ELSE folderNamed(reached(i - 1), segments[i])

\* the first segment that names no folder child; Len(segments) + 1 if none
firstUnmatched ==
  LET ks == { k \in 2..Len(segments) : reached(k) = NoNode }
  IN  IF ks = {} THEN Len(segments) + 1 ELSE CHOOSE k \in ks : \A j \in ks : k <= j

\* the first segment resolved to a root node
rootResolved ==
  /\ returned("findBookmarkFolder")
  /\ call.bookmarks.hasRoots
  /\ reached(1) # NoNode

folderNotFound(k) ==
  << Error("Folder not found",
           segments[k] \o << " ", "i", "n", " " >> \o Join(SubSeq(segments, 1, k - 1), "/")),
     Info("Tip: Check the folder name spelling and path", << >>) >>

\* C13 as stated: once the root is resolved, the call succeeds exactly when
\* every later segment names a folder child of the node reached so far, it
\* then returns the node reached last, and otherwise it reports folder not
\* found with the first unmatched segment and the path before it.
C13_FolderNotFoundAtFirstUnmatched ==
  rootResolved =>
    /\ ret.value.found <=> firstUnmatched > Len(segments)
    /\ ret.value.found => ret.value.node = reached(Len(segments))
    /\ ~ret.value.found =>
         /\ ret.value.node = NoNode
         /\ ret.value.out = folderNotFound(firstUnmatched)

\* C13 amended: as stated, except that when the node reached before the
\* first unmatched segment has no children array the report is that the
\* segment before is not a folder.
C13_SequentialResolution ==
  rootResolved =>
    /\ ret.value.found <=> firstUnmatched > Len(segments)
    /\ ret.value.found => ret.value.node = reached(Len(segments))
    /\ ~ret.value.found =>
         /\ ret.value.node = NoNode
         /\ ret.value.out =
              IF reached(firstUnmatched - 1).hasChildren
                THEN folderNotFound(firstUnmatched)
                ELSE << Error("is not a folder", segments[firstUnmatched - 1]) >>

\* C13 witness: the path bookmark_bar/F/R resolved to the first folder R of
\* the first folder F of the bar, past the url named F and before the second
\* folders of those names
C13_Witness ==
  /\ rootResolved
  /\ call.bookmarks = NestedDocument
  /\ Len(segments) = 3
  /\ ret.value.found
  /\ ret.value.node = FolderNode(<< "R" >>, << UrlAt(1) >>)

\* the first unmatched segment names a child that is a url
namesUrlChild ==
  /\ rootResolved
  /\ firstUnmatched <= Len(segments)
  /\ LET node == reached(firstUnmatched - 1)
     IN  \E j \in 1..Len(node.children) :
           node.children[j].type = "url" /\ node.children[j].name = segments[firstUnmatched]

\* C14: a segment after the first that names a url child, and no folder
\* child, makes the call fail with the not-a-folder report, not with the
\* folder-not-found report.
C14_UrlSegmentIsNotAFolder ==
  namesUrlChild =>
    /\ ~ret.value.found
    /\ \E i \in 1..Len(ret.value.out) : ret.value.out[i].msg = "is not a folder"
    /\ \A i \in 1..Len(ret.value.out) : ret.value.out[i].msg # "Folder not found"

\* the height of a tree and the most children a node of it has
RECURSIVE height(_)
height(node) ==
  IF node.children = << >> THEN 0
  ELSE LET hs == { height(node.children[i]) : i \in 1..Len(node.children) }
       IN  1 + CHOOSE h \in hs : \A g \in hs : g <= h

width(node) ==
  LET ls == { Len(n.children) : n \in nodesOf(node) }
  IN  CHOOSE l \in ls : \A k \in ls : k <= l

\* the node at the end of a path of child positions, NoNode when the path
\* leaves the tree or passes below a node that is no folder with children
RECURSIVE at(_, _)
at(node, path) ==
  IF path = << >> THEN node
  ELSE IF ~node.hasChildren \/ Head(path) > Len(node.children) THEN NoNode
  ELSE IF Len(path) > 1 /\ node.children[Head(path)].type # "folder" THEN NoNode
  ELSE at(node.children[Head(path)], Tail(path))

\* the paths to the url nodes extractUrlsFromFolder is stated to return
urlPaths(folder, recursive) ==
  { p \in UNION { [1..k -> 1..width(folder)] : k \in 1..height(folder) } :
      /\ at(folder, p).type = "url"
      /\ recursive \/ Len(p) = 1 }

\* p comes before q in depth-first document order
pathBefore(p, q) ==
  \E k \in 1..Len(p) :
    /\ k <= Len(q)
    /\ \A j \in 1..(k - 1) : p[j] = q[j]
    /\ p[k] < q[k]

RECURSIVE inDocumentOrder(_)
inDocumentOrder(paths) ==
  IF paths = {} THEN << >>
  ELSE LET first == CHOOSE p \in paths : \A q \in paths \ { p } : pathBefore(p, q)
       IN  << first >> \o inDocumentOrder(paths \ { first })

\* C15: extractUrlsFromFolder returns the {name, url} of every url node of
\* the folder's subtree (recursive) or of its direct children (not
\* recursive), each once, in depth-first document order.
C15_UrlsInDocumentOrder ==
  returned("extractUrlsFromFolder") =>
    LET paths == inDocumentOrder(urlPaths(call.folder, call.recursive))
    IN  ret.value = [i \in 1..Len(paths) |->
                       [name |-> at(call.folder, paths[i]).name,
                        url |-> at(call.folder, paths[i]).url]]

\* C15 witness: the five urls of the bar of the nested document were
\* returned in document order, those of the subfolders in their place
C15_Witness ==
  /\ returned("extractUrlsFromFolder")
  /\ call.folder = NestedDocument.roots.bookmark_bar
  /\ call.recursive
  /\ [i \in 1..Len(ret.value) |-> ret.value[i].url]
       = << << "f" >>, << "u", "1" >>, << "u", "2" >>, << "u", "3" >>, << "u", "4" >> >>

\* C15 witness of the shallow case: the only url of the folder is in a
\* subfolder and the call that is not recursive returned nothing
C15_ShallowWitness ==
  /\ returned("extractUrlsFromFolder")
  /\ call.folder = NestedDocument.roots.other
  /\ ~call.recursive
  /\ ret.value = << >>
  /\ urlPaths(call.folder, TRUE) # {}

\* the blanks that separate words in a POSIX shell
IsBlank(c) == c \in { " ", "\t", "\n" }

\* a reference word split for a string without backslash: quote is the open
\* quote character or "", started is whether a word has begun (an empty
\* quoted string begins one)
RECURSIVE posixScan(_, _, _)
posixScan(s, i, st) ==
  IF i > Len(s) THEN st
  ELSE LET c == s[i]
       IN  IF st.quote # ""
             THEN IF c = st.quote
                    THEN posixScan(s, i + 1, [st EXCEPT !.quote = ""])
                    ELSE posixScan(s, i + 1, [st EXCEPT !.word = Append(@, c)])
           ELSE IF c \in { "'", "\"" }
             THEN posixScan(s, i + 1, [st EXCEPT !.quote = c, !.started = TRUE])
           ELSE IF IsBlank(c)
             THEN posixScan(s, i + 1,
                    IF st.started
                      THEN [st EXCEPT !.words = Append(@, st.word), !.word = << >>,
                                      !.started = FALSE]
                      ELSE st)
           ELSE posixScan(s, i + 1, [st EXCEPT !.word = Append(@, c), !.started = TRUE])

posixEnd(s) ==
  posixScan(s, 1, [words |-> << >>, word |-> << >>, started |-> FALSE, quote |-> ""])

posixWords(s) ==
  IF posixEnd(s).started THEN Append(posixEnd(s).words, posixEnd(s).word)
  ELSE posixEnd(s).words

\* C16: for a command string with balanced quotes, no backslash and no
\* comment sign, parseCommandString returns the words of the reference
\* POSIX word split, an empty quoted word included.
C16_PosixWordSplit ==
  ( /\ returned("parseCommandString")
    /\ call.command # Undef
    /\ ~Includes(call.command, "\\")
    /\ ~Includes(call.command, "#")
    /\ posixEnd(call.command).quote = "" ) =>
    ret.value = posixWords(call.command)

\* the example of C16 that does hold: open "a b" c gives open, a b, c
C16_Example ==
  (returned("parseCommandString") /\ call.command = << "o", "p", "e", "n", " ", "\"", "a", " ", "b", "\"", " ", "c" >>) =>
    ret.value = << << "o", "p", "e", "n" >>, << "a", " ", "b" >>, << "c" >> >>

\* the character at position i of cmd is a quote character q that toggles:
\* it is not directly preceded by a backslash
toggling(cmd, i, q) == cmd[i] = q /\ (i = 1 \/ cmd[i - 1] # "\\")

\* the open quote character after the first i characters of cmd, "" if none:
\* a toggling quote character opens a quotation outside quotes and closes
\* the quotation of its own kind
RECURSIVE quoteAfter(_, _)
quoteAfter(cmd, i) ==
  IF i = 0 THEN ""
  ELSE LET open == quoteAfter(cmd, i - 1)
       IN  IF open = "" /\ (toggling(cmd, i, "'") \/ toggling(cmd, i, "\"")) THEN cmd[i]
           ELSE IF open # "" /\ toggling(cmd, i, open) THEN ""
           ELSE open

\* the position of the first comment sign outside quotes, Len(cmd) + 1 if none
firstComment(cmd) ==
  LET ks == { k \in 1..Len(cmd) : cmd[k] = "#" /\ quoteAfter(cmd, k - 1) = "" }
  IN  IF ks = {} THEN Len(cmd) + 1 ELSE CHOOSE k \in ks : \A j \in ks : k <= j

\* C17: stripInlineComments returns, trimmed, the prefix of cmd before the
\* first comment sign outside single and double quotes, the whole of cmd
\* when there is none; a quote character directly after a backslash does
\* not open or close a quotation.  (An absent or empty cmd gives "".)
C17_PrefixBeforeUnquotedComment ==
  returned("stripInlineComments") =>
    ret.value = IF call.cmd = Undef THEN << >>
                ELSE Trim(SubSeq(call.cmd, 1, firstComment(call.cmd) - 1))

\* C17 witness: of "#"# the quoted comment sign was kept and the text from
\* the second one on was dropped
C17_Witness ==
  /\ returned("stripInlineComments")
  /\ call.cmd = << "\"", "#", "\"", "#" >>
  /\ ret.value = << "\"", "#", "\"" >>

\* s is an integer numeral: digits only, at least one
isNumeral(s) == s # << >> /\ \A i \in 1..Len(s) : IsDigit(s[i])

\* the integers a trimmed part of a selection names: a numeral names its
\* value, a range of two numerals a-b with a <= b names a..b, anything else
\* names nothing
named(part) ==
  IF isNumeral(part) THEN { digitsValue(part, 1, 0) }
  ELSE LET ends == Split(part, "-")
       IN  IF Len(ends) = 2 /\ isNumeral(Trim(ends[1])) /\ isNumeral(Trim(ends[2]))
                /\ digitsValue(Trim(ends[1]), 1, 0) <= digitsValue(Trim(ends[2]), 1, 0)
             THEN digitsValue(Trim(ends[1]), 1, 0) .. digitsValue(Trim(ends[2]), 1, 0)
             ELSE {}

\* C18: parseSelection returns, in ascending order and without duplicates,
\* exactly the integers named by the comma-separated parts that are a
\* numeral or a valid range; the other parts contribute nothing.
C18_SelectionNamesValidParts ==
  (returned("parseSelection") /\ call.selection # Undef) =>
    LET parts == Split(call.selection, ",")
    IN  /\ \A i \in 1..(Len(ret.value) - 1) : ret.value[i] < ret.value[i + 1]
        /\ { ret.value[i] : i \in 1..Len(ret.value) }
             = UNION { named(Trim(parts[i])) : i \in 1..Len(parts) }

\* the example of C18 that does hold: 1,3-5,7 gives 1, 3, 4, 5, 7
C18_Example ==
  (returned("parseSelection") /\ call.selection = << "1", ",", "3", "-", "5", ",", "7" >>) =>
    ret.value = << 1, 3, 4, 5, 7 >>

\* C30: the result of stripInlineComments is a fixed point of
\* stripInlineComments, it neither starts nor ends with whitespace, and it
\* has no comment sign outside quotes.
C30_StripIsIdempotent ==
  returned("stripInlineComments") =>
    /\ stripInlineComments(ret.value) = ret.value
    /\ ret.value # << >> => ~IsSpace(ret.value[1]) /\ ~IsSpace(ret.value[Len(ret.value)])
    /\ firstComment(ret.value) = Len(ret.value) + 1

\* C30 witness: of " a #" the result is "a": the comment was cut, the spaces
\* on both sides were trimmed, and stripping the result again gives it back
C30_Witness ==
  /\ returned("stripInlineComments")
  /\ call.cmd = << " ", "a", " ", "#" >>
  /\ ret.value = << "a" >>
  /\ stripInlineComments(ret.value) = ret.value

\* ------------------------------------------------------------------------
\* Properties of the management functions
\* ------------------------------------------------------------------------

\* a run of fn has ended on a configuration file that could be read; config
\* is the configuration the run loaded
afterRun(fn) ==
  call.fn = fn /\ pc \in { "exited", "fault" } /\ configFile.state = "ok"

\* the ids are positive integers and no two workspaces share one
uniquePositiveIds(workspaces) ==
  /\ \A i \in 1..Len(workspaces) : workspaces[i].id.t = "number" /\ workspaces[i].id.v > 0
  /\ \A i, j \in 1..Len(workspaces) : workspaces[i].id = workspaces[j].id => i = j

\* C19: a management run on a configuration whose ids are unique positive
\* integers leaves a configuration whose ids are unique positive integers;
\* a run of addWorkspace leaves one workspace more, the last, whose id is
\* greater than every id the run found; a run of editWorkspace leaves every
\* workspace with the id it had.
C19_ManagementKeepsIds ==
  LET found == config.workspaces
      left == configFile.config.workspaces
  IN  /\ \E fn \in { "addWorkspace", "editWorkspace", "deleteWorkspace" } : afterRun(fn)
      /\ config.workspacesIsArray
      /\ uniquePositiveIds(found)
      =>
      /\ uniquePositiveIds(left)
      /\ afterRun("addWorkspace") =>
           /\ Len(left) = Len(found) + 1
           /\ \A i \in 1..Len(found) : left[Len(left)].id.v > found[i].id.v
      /\ afterRun("editWorkspace") =>
           /\ Len(left) = Len(found)
           /\ \A i \in 1..Len(found) : left[i].id = found[i].id

\* every management run that could read the configuration file has ended by
\* an uncaught error before its first prompt, with the file holding the
\* configuration the run loaded: nothing was read from stdin, validated,
\* added, edited, deleted or saved
ManagementRunsEndBeforeFirstPrompt ==
  (\E fn \in { "addWorkspace", "editWorkspace", "deleteWorkspace" } : afterRun(fn)) =>
    /\ pc = "fault"
    /\ raised \in { "config.workspaces", "print.colors.cyan", "print.colors.yellow" }
    /\ configFile.config = config
    /\ linesWith("Configuration saved") = << >>
    /\ ret = NoRet

\* the id addWorkspace computes before its first prompt is a positive integer
\* greater than every id of the configuration it loaded
AddWorkspaceNewIdIsGreatest ==
  (afterRun("addWorkspace") /\ config.workspacesIsArray
     /\ \A i \in 1..Len(config.workspaces) : config.workspaces[i].id.t = "number") =>
    /\ newId(config.workspaces) > 0
    /\ \A i \in 1..Len(config.workspaces) :
         newId(config.workspaces) > config.workspaces[i].id.v

\* ------------------------------------------------------------------------
\* Properties of a launch: failures, interrupts and frames
\* ------------------------------------------------------------------------

\* the workspace at position p went through a live xdg-open phase: it has a
\* bookmarks folder that resolved to at least one bookmark, and the first
\* token of the open command ends in xdg-open
xdgOpenPhase(p) ==
  LET w == selectedAt(p)
      parts == parseCommandString(browserCommandOf(config))
  IN  /\ w # NoWorkspace
      /\ Truthy(w.bookmarks_folder)
      /\ Truthy(config.settings.bookmarks_file)
      /\ ~resolved(w).threw
      /\ Len(resolved(w).bookmarks) >= 1
      /\ parts # << >>
      /\ isXdgOpen(parts)

\* C21: a failure of one item never stops the items after it: in a live
\* xdg-open phase every resolved bookmark has been handed to the open
\* command once launchWorkspace has returned, whatever the outcomes of the
\* invocations before it; and once the pass has exited with its summary,
\* every selected workspace that exists has been launched, whatever failed
\* in the workspaces before it.
C21_FailureDoesNotStopLaterItems ==
  ~argv.dryRun =>
    /\ \A p \in 1..Len(selectedIds) :
         (p < idIdx /\ xdgOpenPhase(p)) =>
           Len(argsOf(selectedAt(p).id.v, "open")) = Len(resolved(selectedAt(p)).bookmarks)
    /\ exitCode = {0} =>
         \A p \in 1..Len(selectedIds) :
           selectedAt(p) # NoWorkspace =>
             \E k \in 1..Len(launchedWorkspaces) : launchedWorkspaces[k] = selectedAt(p)

\* the second half of C21 alone: a pass that reaches its summary has launched
\* every selected workspace that exists
LaterWorkspacesStillLaunched ==
  exitCode = {0} =>
    \A p \in 1..Len(selectedIds) :
      selectedAt(p) # NoWorkspace =>
        \E k \in 1..Len(launchedWorkspaces) : launchedWorkspaces[k] = selectedAt(p)

\* the ids of the workspaces whose launch has ended and one of whose open
\* invocations ended in a way of the set given
phasesWithOpenOutcome(ways) ==
  { spawned[i].ws : i \in { k \in 1..Len(outcomes) :
                              /\ spawned[k].phase = "open"
                              /\ outcomes[k] \in ways
                              /\ \E p \in 1..(idIdx - 1) : selectedIds[p] = spawned[k].ws } }

\* C22: in a live launch the number of "Failed to open bookmarks" reports
\* equals the number of finished bookmarks phases in which an open invocation failed
\* (non-zero exit or spawn error): one report per failed batch, in the
\* xdg-open and in the single-invocation branch, never one per URL.
C22_OneReportPerFailedBatch ==
  Len(linesWith("Failed to open bookmarks"))
    = Cardinality(phasesWithOpenOutcome({ "nonzero", "throw" }))

\* the report is printed once for every bookmarks phase in which an open
\* invocation raised an error, and for no other
OpenErrorReportedOncePerBatch ==
  Len(linesWith("Failed to open bookmarks")) = Cardinality(phasesWithOpenOutcome({ "throw" }))

\* the SIGINT handler has run
cancelled == linesWith("Cancelled by user") # << >>

C24_FlagsSetOnceBeforeLaunch ==
  [][ /\ pc # "start" => UNCHANGED << isDryRun, isVerbose >>
      /\ pc' # "start" =>
           /\ isDryRun' = argv.dryRun
           /\ isVerbose' = argv.verbose
           /\ linesWith("Starting")' # << >> => pc # "start"
           /\ \A i \in 1..Len(spawned') :
                ~isDryRun' /\ spawned'[i].quiet = ~isVerbose' ]_vars

\* C24 witness: a verbose live pass that has exited after running a command
\* of one workspace and opening a bookmark of another
C24_Witness ==
  /\ exitCode = {0}
  /\ isVerbose /\ ~isDryRun
  /\ Len(launchedWorkspaces) = 2
  /\ \E i \in 1..Len(spawned) : spawned[i].phase = "command"
  /\ \E i \in 1..Len(spawned) : spawned[i].phase = "open"

\* C25: no step after the configuration was loaded changes the
\* configuration, the configuration file, the example file or the bookmarks
\* file, and every workspace recorded as launched is still equal to its
\* record in the configuration (id, name, commands, bookmarks_folder).
C25_LaunchLeavesInputsUnchanged ==
  [][ /\ pc # "start" => UNCHANGED << config, configFile, exampleFile, bookmarksFile >>
      /\ \A k \in 1..Len(launchedWorkspaces') :
           launchedWorkspaces'[k] = find(config'.workspaces, launchedWorkspaces'[k].id.v) ]_vars

\* C25 witness: a live pass has exited after launching workspace 3, which
\* has no commands array, and opening the bookmarks of its folder
C25_Witness ==
  /\ exitCode = {0}
  /\ ~argv.dryRun
  /\ Len(launchedWorkspaces) > 0
  /\ launchedWorkspaces[1].id = Num(3)
  /\ launchedWorkspaces[1].commandsType = "undefined"
  /\ Len(linesWith("Opened")) > 0

\* the commands C26 states to be passed over
statedSkipped(cmd) ==
  \/ \A k \in 1..Len(cmd) : IsSpace(cmd[k])
  \/ (Trim(cmd) # << >> /\ Trim(cmd)[1] = "#")
  \/ stripInlineComments(cmd) = << >>

\* the comment-stripped texts of the commands C26 states to be processed,
\* among those the command loops have gone through, in order
statedProcessed ==
  Flatten([p \in 1..Len(selectedIds) |->
             IF selectedAt(p) = NoWorkspace THEN << >>
             ELSE LET cmds == SelectSeq(SubSeq(commandsOf(selectedAt(p)), 1, handled(p)),
                                        LAMBDA c : ~statedSkipped(c))
                  IN  [i \in 1..Len(cmds) |-> stripInlineComments(cmds[i])]])

\* C26: the commands executed (live) or planned (dry run) are exactly the
\* commands that are not blank, do not begin with '#' after trimming and are
\* not empty after comment stripping, each with its comment-stripped text;
\* a command passed over has no child and no report line.
C26_SkippedExactlyWhenStated ==
  pc # "start" =>
    IF argv.dryRun
      THEN /\ [i \in 1..Len(linesWith("Would execute")) |-> linesWith("Would execute")[i].text]
                = statedProcessed
           /\ [i \in 1..Len(linesWith("Planned")) |-> linesWith("Planned")[i].text]
                = [i \in 1..Len(statedProcessed) |-> DisplayName(statedProcessed[i], CmdDisplayMax)]
           /\ commandChildren = << >> /\ commandReports = << >>
      ELSE /\ [i \in 1..Len(commandChildren) |-> commandChildren[i].args[3]] = statedProcessed
           /\ Len(commandReports)
                = Cardinality({ i \in 1..Len(outcomes) : spawned[i].phase = "command" })
           /\ linesWith("Would execute") = << >> /\ linesWith("Planned") = << >>

\* C26 witness: the five commands of workspace 2 (empty, comment, blank,
\* inline comment, quoted '#') have been gone through, live: two children
C26_Witness ==
  /\ ~argv.dryRun
  /\ pc = "bookmarks"
  /\ selectedIds[idIdx] = 2
  /\ Len(commandChildren) = 2
  /\ commandChildren[1].args[3] = << "a" >>
  /\ commandChildren[2].args[3] = << "e", " ", "'", "#", "'" >>

\* the same commands in a dry run: two planned, none executed
C26_DryWitness ==
  /\ argv.dryRun
  /\ pc = "bookmarks"
  /\ selectedIds[idIdx] = 2
  /\ Len(linesWith("Would execute")) = 2

\* on every command string of the pool, the test of the command loop and the
\* stated one agree
SkippedAsStated ==
  (call.fn = "stripInlineComments") => (skipped(call.cmd) <=> statedSkipped(call.cmd))

\* the character at position i of s follows a backslash that is itself not
\* escaped: it is literal
RECURSIVE escapedAt(_, _)
escapedAt(s, i) == i > 1 /\ s[i - 1] = "\\" /\ ~escapedAt(s, i - 1)

\* the quoting states in force at position i of s: each quote character
\* before i that is not escaped toggles its own state when the other state
\* is inactive
RECURSIVE quotingAt(_, _)
quotingAt(s, i) ==
  IF i = 1 THEN [single |-> FALSE, double |-> FALSE]
  ELSE LET q == quotingAt(s, i - 1)
           c == s[i - 1]
       IN  IF escapedAt(s, i - 1) THEN q
           ELSE IF c = "'" /\ ~q.double THEN [q EXCEPT !.single = ~@]
           ELSE IF c = "\"" /\ ~q.single THEN [q EXCEPT !.double = ~@]
           ELSE q

\* what the character at position i of s is for the scan C27 states:
\* "escape" (a dropped backslash), "toggle" (a quote that changes its
\* state), "end" (a space that ends a token) or "content"
roleAt(s, i) ==
  LET q == quotingAt(s, i)
  IN  IF escapedAt(s, i) THEN "content"
      ELSE IF s[i] = "\\" THEN "escape"
      ELSE IF (s[i] = "'" /\ ~q.double) \/ (s[i] = "\"" /\ ~q.single) THEN "toggle"
      ELSE IF s[i] = " " /\ ~q.single /\ ~q.double THEN "end"
      ELSE "content"

\* the members of a set of positions, ascending
RECURSIVE ascending(_)
ascending(S) ==
  IF S = {} THEN << >>
  ELSE LET m == CHOOSE x \in S : \A y \in S : x <= y
       IN  << m >> \o ascending(S \ { m })

\* the content of positions a..b of s
contentOf(s, a, b) ==
  LET ps == ascending({ k \in a..b : roleAt(s, k) = "content" })
  IN  [k \in 1..Len(ps) |-> s[ps[k]]]

\* the tokens C27 states: the content of every maximal stretch of s without
\* a token end, in order, a stretch without content giving no token
statedTokens(s) ==
  LET n == Len(s)
      starts == ascending({ a \in 1..n :
                              roleAt(s, a) # "end" /\ (a = 1 \/ roleAt(s, a - 1) = "end") })
      stop(a) == CHOOSE b \in a..n :
                   /\ \A k \in a..b : roleAt(s, k) # "end"
                   /\ (b = n \/ roleAt(s, b + 1) = "end")
  IN  SelectSeq([k \in 1..Len(starts) |-> contentOf(s, starts[k], stop(starts[k]))],
                LAMBDA t : t # << >>)

\* C27: every call of parseCommandString on a string returns (it never
\* raises), and it returns the tokens of the stated scan: an unescaped
\* backslash is dropped and makes the next character content, a quote
\* toggles its state only while the other state is inactive and is content
\* otherwise, only a space outside both states ends a token, the pending
\* token is emitted at the end of the input; the empty string gives no token.
C27_SingleScanTokens ==
  (call.fn = "parseCommandString" /\ pc # "call") =>
    /\ ret.returned
    /\ raised = ""
    /\ call.command # Undef => ret.value = statedTokens(call.command)
    /\ call.command = << >> => ret.value = << >>

\* C27 witness: a'\"  returned as the one token a" (the backslash escapes
\* inside single quotes, the quote is never closed)
C27_Witness ==
  /\ returned("parseCommandString")
  /\ call.command = << "a", "'", "\\", "\"" >>
  /\ ret.value = << << "a", "\"" >> >>

\* the backslash escapes a space outside quotes: a\ a is one token
C27_EscapedSpace ==
  (returned("parseCommandString") /\ call.command = << "a", "\\", " ", "a" >>) =>
    ret.value = << << "a", " ", "a" >> >>

\* the selected ids that match a workspace of the configuration, and those
\* that match none, in selection order
foundIds == SelectSeq(selectedIds, LAMBDA id : find(config.workspaces, id) # NoWorkspace)
missingIds == SelectSeq(selectedIds, LAMBDA id : find(config.workspaces, id) = NoWorkspace)

\* the pass has called launchWorkspace once for every selected id that
\* matches a workspace, in ascending id order, has reported every other id as
\* not found, and has printed the summary of exactly the workspaces found
passCompleted ==
  /\ \A i, j \in 1..Len(selectedIds) : i < j => selectedIds[i] < selectedIds[j]
  /\ [k \in 1..Len(linesWith("Starting")) |-> linesWith("Starting")[k].text]
       = [k \in 1..Len(foundIds) |-> find(config.workspaces, foundIds[k]).name]
  /\ launchedWorkspaces = [k \in 1..Len(foundIds) |-> find(config.workspaces, foundIds[k])]
  /\ notFoundIds = missingIds
  /\ linesWith("Workspace not found")
       = [k \in 1..Len(missingIds) |-> Error("Workspace not found", IntToStr(missingIds[k]))]
         \o [k \in 1..Len(missingIds) |-> Error("Workspace not found", IntToStr(missingIds[k]))]
  /\ linesWith("launched")
       = [k \in 1..Len(foundIds) |->
            Line("log", "launched", find(config.workspaces, foundIds[k]).name, foundIds[k], 0)]
  /\ exitCode = {0}

\* C29: a launch pass that has gone into its loop ends with every selected
\* id that matches a workspace launched exactly once, in ascending id order
\* whatever the selection string, every other id reported as not found, and
\* the summary listing exactly the workspaces found, whatever their commands
\* and bookmarks did.
C29_EveryFoundIdLaunchedOnce ==
  (pc \in { "exited", "fault" } /\ selectedIds # << >>) => passCompleted

\* a pass that reaches its summary has done all of this, also when commands
\* failed and ids were not found
SummaryListsTheWorkspacesFound ==
  (pc = "exited" /\ selectedIds # << >>) => passCompleted

\* a pass given "3,2,2" has listed workspaces 2 and 3, in this order, after
\* a command of workspace 2 raised a spawn error
SummaryExample ==
  /\ pc = "exited"
  /\ argv.preSelected = << "3", ",", "2", ",", "2" >>
  /\ selectedIds = << 2, 3 >>
  /\ Len(launchedWorkspaces) = 2
  /\ \E i \in 1..Len(outcomes) : outcomes[i] = "throw" /\ spawned[i].phase = "command"

\* ------------------------------------------------------------------------
\* Properties of a launch given a custom configuration path
\* ------------------------------------------------------------------------

\* C28: when a custom configuration path is passed, the configuration that
\* is validated, listed and launched is the one read from the file at that
\* path: the workspaces listed and the workspaces launched are workspaces of
\* that file.
C28_CustomConfigIsRead ==
  (Truthy(argv.customConfigPath) /\ pc # "start") =>
    /\ config = customConfigFile.config
    /\ SelectSeq(out, LAMBDA l : l.fn = "workspace") = listing(customConfigFile.config.workspaces)
    /\ \A k \in 1..Len(launchedWorkspaces) :
         \E j \in 1..Len(customConfigFile.config.workspaces) :
           launchedWorkspaces[k] = customConfigFile.config.workspaces[j]

\* with a custom path passed, the configuration used is still the one of the
\* file at CONFIG_PATH
DefaultConfigIsRead ==
  (Truthy(argv.customConfigPath) /\ pc # "start" /\ configFile.state = "ok") =>
    config = configFile.config

====
